---------------------------- MODULE Spec2Model ----------------------------
(***************************************************************************)
(* Model of the content-relatedness and summary-merging engine of the      *)
(* YouTube summarizer (src/lib/content-analyzer.ts): extractKeywords,      *)
(* calculateTermFrequency, calculateSimilarity, areRelated and             *)
(* mergeSummaries.  Texts are TLA+ strings, handled character by           *)
(* character the way the JavaScript string and RegExp operations of the    *)
(* source handle them.  A similarity score is the exact fraction           *)
(* commonTerms / totalUniqueTerms in lowest terms.                         *)
(***************************************************************************)
EXTENDS Integers, Sequences, FiniteSets, TLC

VARIABLES
    pc,              \* "call": fn has been entered; "done": it has returned
    fn,              \* the exported function called ("none" before any call)
    text1, text2,    \* arguments of the calculateSimilarity call
    summaries,       \* argument of the areRelated / mergeSummaries call
    threshold,       \* argument of the areRelated call (Undefined: omitted)
    titles,          \* argument of the mergeSummaries call
    allPoints,       \* the arrays mergeSummaries collects the fragments in
    allOverviews,
    allConclusions,
    result,          \* value returned by the call
    thrown,          \* the call ended with a TypeError instead of returning
    prior,           \* history: one earlier mergeSummaries call and its result,
                     \* the item a lookup met in the store
    args,            \* arguments of a fetchVideoData / summarizeWithGemini
                     \* call, body of a POST request
    env,             \* process.env and what the services outside answer
    localStorage,    \* the storage of cache-service.ts: key -> stored item
    now,             \* Date.now()
    calls,           \* the generateContent calls made, by model name
    client,          \* state of the YouTubeSummarizer component
    served,          \* number of POST requests received so far
    settled          \* the values Promise.all has gathered from the callbacks of the urls

serviceVars == <<args, env, localStorage, now, calls, client, served, settled>>

coreVars == <<text1, text2, summaries, threshold, titles,
              allPoints, allOverviews, allConclusions, prior>>

vars == <<pc, fn, text1, text2, summaries, threshold, titles,
          allPoints, allOverviews, allConclusions, result, thrown, prior,
          args, env, localStorage, now, calls, client, served, settled>>

\* an omitted argument, a null RegExp match, no remembered call
Undefined == [undefined |-> TRUE]
NoMatch == [matched |-> FALSE]
NoCall == [called |-> FALSE]
Null == [null |-> TRUE]

-----------------------------------------------------------------------------
(* Characters and the JavaScript string primitives the source uses.        *)

Char(s, i) == SubSeq(s, i, i)

UpperCase == "ABCDEFGHIJKLMNOPQRSTUVWXYZ"
LowerCase == "abcdefghijklmnopqrstuvwxyz"
Digits == "0123456789"

CharsOf(s) == {Char(s, i) : i \in 1..Len(s)}

\* \w of a RegExp without the u or i flag: ASCII letters, digits and "_"
WordChars == CharsOf(UpperCase) \cup CharsOf(LowerCase) \cup CharsOf(Digits) \cup {"_"}

\* \s of a RegExp, and the characters String.prototype.trim removes
WhiteSpace == {" ", "\t", "\n", "\r", "\f"}

\* the characters "." does not match (no s flag)
LineTerminators == {"\n", "\r"}

LowerOf == [c \in CharsOf(UpperCase) |->
              Char(LowerCase, CHOOSE i \in 1..Len(UpperCase) : Char(UpperCase, i) = c)]

\* the least element of a non-empty set of integers
Min(S) == CHOOSE x \in S : \A y \in S : x <= y

\* s with f applied to each of its characters (split in halves to keep the
\* evaluation shallow)
RECURSIVE MapChars(_, _)
MapChars(f(_), s) ==
    IF Len(s) = 0 THEN ""
    ELSE IF Len(s) = 1 THEN f(s)
    ELSE LET half == Len(s) \div 2
         IN  MapChars(f, SubSeq(s, 1, half)) \o MapChars(f, SubSeq(s, half + 1, Len(s)))

LowerChar(c) == IF c \in DOMAIN LowerOf THEN LowerOf[c] ELSE c
toLowerCase(s) == MapChars(LowerChar, s)

\* s.replace(/[^\w\s]/g, "")
KeepWordOrSpace(c) == IF c \in WordChars \cup WhiteSpace THEN c ELSE ""
StripSpecial(s) == MapChars(KeepWordOrSpace, s)

\* s.split(/\s+/): the pieces between maximal runs of whitespace, an empty
\* piece first (last) when s starts (ends) with whitespace, [""] for "".
\* start is where the current piece starts.
RECURSIVE SplitWhiteSpaceFrom(_, _)
SplitWhiteSpaceFrom(s, start) ==
    LET spaces == {i \in start..Len(s) : Char(s, i) \in WhiteSpace}
    IN  IF spaces = {} THEN <<SubSeq(s, start, Len(s))>>
        ELSE LET i == Min(spaces)
                 rest == {j \in (i + 1)..Len(s) : Char(s, j) \notin WhiteSpace}
                 next == IF rest = {} THEN Len(s) + 1 ELSE Min(rest)
             IN  <<SubSeq(s, start, i - 1)>> \o SplitWhiteSpaceFrom(s, next)

SplitWhiteSpace(s) == SplitWhiteSpaceFrom(s, 1)

\* s.split(sep) for a non-empty literal separator: the pieces between the
\* occurrences of sep, found left to right without overlap
RECURSIVE SplitFrom(_, _, _)
SplitFrom(s, sep, start) ==
    LET hits == {i \in start..(Len(s) - Len(sep) + 1) : SubSeq(s, i, i + Len(sep) - 1) = sep}
    IN  IF hits = {} THEN <<SubSeq(s, start, Len(s))>>
        ELSE <<SubSeq(s, start, Min(hits) - 1)>> \o SplitFrom(s, sep, Min(hits) + Len(sep))

Split(s, sep) == SplitFrom(s, sep, 1)

\* parts.join(sep)
RECURSIVE Join(_, _)
Join(parts, sep) ==
    IF parts = <<>> THEN ""
    ELSE IF Len(parts) = 1 THEN parts[1]
    ELSE parts[1] \o sep \o Join(Tail(parts), sep)

\* s.includes(t)
Includes(s, t) ==
    \E i \in 1..(Len(s) - Len(t) + 1) : SubSeq(s, i, i + Len(t) - 1) = t

\* s.startsWith(t)
StartsWith(s, t) == Len(s) >= Len(t) /\ SubSeq(s, 1, Len(t)) = t

\* s.trim(): first and last index of what trim keeps
RECURSIVE TrimStart(_, _)
TrimStart(s, i) ==
    IF i <= Len(s) /\ Char(s, i) \in WhiteSpace THEN TrimStart(s, i + 1) ELSE i

RECURSIVE TrimEnd(_, _)
TrimEnd(s, j) ==
    IF j >= 1 /\ Char(s, j) \in WhiteSpace THEN TrimEnd(s, j - 1) ELSE j

Trim(s) == SubSeq(s, TrimStart(s, 1), TrimEnd(s, Len(s)))

\* array.slice(0, n), array.slice(-n)
Take(seq, n) == SubSeq(seq, 1, IF Len(seq) < n THEN Len(seq) ELSE n)
LastN(seq, n) == SubSeq(seq, IF Len(seq) < n THEN 1 ELSE Len(seq) - n + 1, Len(seq))

-----------------------------------------------------------------------------
(* extractKeywords, calculateTermFrequency, calculateSimilarity            *)

stopWords ==
    {"a", "an", "the", "and", "or", "but", "is", "are", "was", "were", "be",
     "been", "being", "in", "on", "at", "to", "for", "with", "by", "about",
     "against", "between", "into", "through", "during", "before", "after",
     "above", "below", "from", "up", "down", "of", "off", "over", "under",
     "again", "further", "then", "once", "here", "there", "when", "where",
     "why", "how", "all", "any", "both", "each", "few", "more", "most",
     "other", "some", "such", "no", "nor", "not", "only", "own", "same", "so",
     "than", "too", "very", "s", "t", "can", "will", "just", "don", "should",
     "now", "this", "that"}

IsKeyword(word) == Len(word) > 2 /\ word \notin stopWords

extractKeywords(text) ==
    LET cleanText == StripSpecial(toLowerCase(text))
        words == SplitWhiteSpace(cleanText)
    IN  SelectSeq(words, IsKeyword)

\* the Map of lines 98-106 as a function from its keys to their counts
calculateTermFrequency(keywords) ==
    [word \in {keywords[i] : i \in 1..Len(keywords)} |->
        Cardinality({i \in 1..Len(keywords) : keywords[i] = word})]

RECURSIVE Gcd(_, _)
Gcd(a, b) == IF b = 0 THEN a ELSE Gcd(b, a % b)

\* the number n / d (d > 0), in lowest terms
Fraction(n, d) == [num |-> n \div Gcd(n, d), den |-> d \div Gcd(n, d)]
Zero == [num |-> 0, den |-> 1]
One == [num |-> 1, den |-> 1]

\* x >= y, x <= y for fractions
Geq(x, y) == x.num * y.den >= y.num * x.den
Leq(x, y) == Geq(y, x)

\* as calculateSimilarity, the total counted over the first text's terms only
calculateSimilarityOverFirst(t1, t2) ==
    LET tf1 == calculateTermFrequency(extractKeywords(t1))
        tf2 == calculateTermFrequency(extractKeywords(t2))
        totalUniqueTerms == Cardinality(DOMAIN tf1)
        commonTerms == Cardinality({term \in DOMAIN tf1 : term \in DOMAIN tf2})
    IN  IF totalUniqueTerms > 0 THEN Fraction(commonTerms, totalUniqueTerms) ELSE Zero

\* as calculateSimilarity, allTerms an array of both key lists instead of a Set
calculateSimilarityOverArray(t1, t2) ==
    LET tf1 == calculateTermFrequency(extractKeywords(t1))
        tf2 == calculateTermFrequency(extractKeywords(t2))
        totalUniqueTerms == Cardinality(DOMAIN tf1) + Cardinality(DOMAIN tf2)
        commonTerms == 2 * Cardinality(DOMAIN tf1 \cap DOMAIN tf2)
    IN  IF totalUniqueTerms > 0 THEN Fraction(commonTerms, totalUniqueTerms) ELSE Zero

\* as calculateSimilarity, the total counted over the keyword occurrences
calculateSimilarityOverOccurrences(t1, t2) ==
    LET keywords1 == extractKeywords(t1)
        keywords2 == extractKeywords(t2)
        tf1 == calculateTermFrequency(keywords1)
        tf2 == calculateTermFrequency(keywords2)
        commonTerms == Cardinality(DOMAIN tf1 \cap DOMAIN tf2)
        totalUniqueTerms == Len(keywords1) + Len(keywords2) - commonTerms
    IN  IF totalUniqueTerms > 0 THEN Fraction(commonTerms, totalUniqueTerms) ELSE Zero

calculateSimilarity(t1, t2) ==
    LET tf1 == calculateTermFrequency(extractKeywords(t1))
        tf2 == calculateTermFrequency(extractKeywords(t2))
        allTerms == DOMAIN tf1 \cup DOMAIN tf2
        totalUniqueTerms == Cardinality(allTerms)
        commonTerms == Cardinality({term \in allTerms :
                                      term \in DOMAIN tf1 /\ term \in DOMAIN tf2})
    IN  IF totalUniqueTerms > 0 THEN Fraction(commonTerms, totalUniqueTerms) ELSE Zero

-----------------------------------------------------------------------------
(* areRelated                                                              *)

\* threshold = 0.15
defaultThreshold == Fraction(15, 100)

\* the loops of lines 140-147, with 1-based indices: i runs to Len - 1,
\* j from i + 1 to Len, and the first pair at or above the threshold returns
RECURSIVE areRelatedLoop(_, _, _, _)
areRelatedLoop(docs, t, i, j) ==
    IF i > Len(docs) - 1 THEN FALSE
    ELSE IF j > Len(docs) THEN areRelatedLoop(docs, t, i + 1, i + 2)
    ELSE IF Geq(calculateSimilarity(docs[i], docs[j]), t) THEN TRUE
    ELSE areRelatedLoop(docs, t, i, j + 1)

\* as areRelated, only the first summary compared with the others
areRelatedToFirst(docs, th) ==
    LET t == IF th = Undefined THEN defaultThreshold ELSE th
    IN  IF Len(docs) <= 1 THEN FALSE
        ELSE \E j \in 2..Len(docs) : Geq(calculateSimilarity(docs[1], docs[j]), t)

\* as areRelated, the comparison strict (similarity > threshold)
areRelatedAbove(docs, th) ==
    LET t == IF th = Undefined THEN defaultThreshold ELSE th
    IN  IF Len(docs) <= 1 THEN FALSE
        ELSE \E i \in 1..Len(docs) : \E j \in (i + 1)..Len(docs) :
                ~Leq(calculateSimilarity(docs[i], docs[j]), t)

\* as areRelated, without the length guard and with j starting at i
areRelatedWithSelf(docs, th) ==
    LET t == IF th = Undefined THEN defaultThreshold ELSE th
    IN  \E i \in 1..Len(docs) : \E j \in i..Len(docs) :
            Geq(calculateSimilarity(docs[i], docs[j]), t)

\* as areRelated, the comparison turned round (similarity <= threshold)
areRelatedBelow(docs, th) ==
    LET t == IF th = Undefined THEN defaultThreshold ELSE th
    IN  IF Len(docs) <= 1 THEN FALSE
        ELSE \E i \in 1..Len(docs) : \E j \in (i + 1)..Len(docs) :
                Leq(calculateSimilarity(docs[i], docs[j]), t)

areRelated(docs, th) ==
    LET t == IF th = Undefined THEN defaultThreshold ELSE th
    IN  IF Len(docs) <= 1 THEN FALSE ELSE areRelatedLoop(docs, t, 1, 2)

-----------------------------------------------------------------------------
(* mergeSummaries: the per-summary extraction of lines 159-183             *)

\* The tail "(.*?)(?:term|$)" of both regular expressions, tried with the
\* capture starting at q: the lazy group grows one character at a time, never
\* over a line terminator, until term or the end of the input follows.  stop
\* is where the growing ends; last is the last index the match consumed.
LazyLine(s, q, term) ==
    LET TermAt(at) == at + Len(term) - 1 <= Len(s) /\ SubSeq(s, at, at + Len(term) - 1) = term
        stop == Min({at \in q..(Len(s) + 1) :
                        \/ TermAt(at)
                        \/ at = Len(s) + 1
                        \/ Char(s, at) \in LineTerminators})
    IN  IF TermAt(stop)
        THEN [matched |-> TRUE, capture |-> SubSeq(s, q, stop - 1),
              last |-> stop + Len(term) - 1]
        ELSE IF stop = Len(s) + 1
        THEN [matched |-> TRUE, capture |-> SubSeq(s, q, stop - 1), last |-> stop - 1]
        ELSE NoMatch

\* /(?:^|\n\n)(.*?)(?:\n\n|$)/ tried at start position p, "^" before "\n\n"
OverviewMatchAt(s, p) ==
    LET viaStart == IF p = 1 THEN LazyLine(s, 1, "\n\n") ELSE NoMatch
        viaBlank == IF p + 1 <= Len(s) /\ SubSeq(s, p, p + 1) = "\n\n"
                    THEN LazyLine(s, p + 2, "\n\n") ELSE NoMatch
    IN  IF viaStart.matched THEN viaStart ELSE viaBlank

\* summary.match(/(?:^|\n\n)(.*?)(?:\n\n|$)/): the match at the leftmost
\* start position that has one
overviewMatch(summary) ==
    LET starts == {p \in 1..(Len(summary) + 1) : OverviewMatchAt(summary, p).matched}
    IN  IF starts = {} THEN NoMatch ELSE OverviewMatchAt(summary, Min(starts))

\* /\* (.*?)(?:\n|$)/ tried at start position p
BulletMatchAt(s, p) ==
    IF p + 1 <= Len(s) /\ SubSeq(s, p, p + 1) = "* " THEN LazyLine(s, p + 2, "\n") ELSE NoMatch

\* summary.match(/\* (.*?)(?:\n|$)/g): every match, left to right, each search
\* resuming after the previous match (<<>> stands for null)
RECURSIVE BulletMatchesFrom(_, _)
BulletMatchesFrom(s, from) ==
    LET starts == {p \in from..Len(s) : BulletMatchAt(s, p).matched}
    IN  IF starts = {} THEN <<>>
        ELSE LET p == Min(starts)
                 m == BulletMatchAt(s, p)
             IN  <<SubSeq(s, p, m.last)>> \o BulletMatchesFrom(s, m.last + 1)

bulletPoints(summary) == BulletMatchesFrom(summary, 1)

TrimAll(points) == [i \in 1..Len(points) |-> Trim(points[i])]

IsConclusion(para) == ~StartsWith(Trim(para), "*") /\ Len(para) > 10

\* as conclusionOf, the last two paragraphs scanned from the end
conclusionOfLastFirst(summary) ==
    LET paragraphs == Split(summary, "\n\n")
        lastParagraphs == LastN(paragraphs, 2)
        found == SelectSeq(lastParagraphs, IsConclusion)
    IN  LastN(found, 1)

\* lines 175-182: the first of the last two paragraphs that qualifies, if any
conclusionOf(summary) ==
    LET paragraphs == Split(summary, "\n\n")
        lastParagraphs == LastN(paragraphs, 2)
        found == SelectSeq(lastParagraphs, IsConclusion)
    IN  Take(found, 1)

\* one iteration of summaries.forEach on the three arrays
ExtractFrom(summary, frag) ==
    LET m == overviewMatch(summary)
    IN  [overviews   |-> IF m.matched /\ m.capture # ""
                         THEN Append(frag.overviews, m.capture) ELSE frag.overviews,
         points      |-> frag.points \o TrimAll(bulletPoints(summary)),
         conclusions |-> frag.conclusions \o conclusionOf(summary)]

RECURSIVE ForEachSummary(_, _)
ForEachSummary(docs, frag) ==
    IF docs = <<>> THEN frag
    ELSE ForEachSummary(Tail(docs), ExtractFrom(Head(docs), frag))


-----------------------------------------------------------------------------
(* mergeSummaries: the assembly of lines 185-240                           *)

TitleHeader == "# Combined Summary of Related Videos\n\n"
VideosHeader == "## Videos Analyzed\n\n"
OverviewHeader == "\n## Overview\n\n"
KeyPointsHeader == "## Key Points From All Videos\n\n"
ConclusionHeader == "\n## Overall Conclusion\n\n"
OverviewFallback == "These videos discuss related topics.\n\n"
ConclusionFallback ==
    "These videos cover related content and should be considered together for a comprehensive understanding of the topic.\n"

\* titles.forEach((title, index) => `${index + 1}. ${title}\n`)
RECURSIVE TitleLines(_, _)
TitleLines(ts, index) ==
    IF index > Len(ts) THEN ""
    ELSE ToString(index) \o ". " \o ts[index] \o "\n" \o TitleLines(ts, index + 1)

\* array.sort((a, b) => b.length - a.length): stable, longest first
RECURSIVE InsertByLength(_, _)
InsertByLength(sorted, x) ==
    IF sorted = <<>> THEN <<x>>
    ELSE IF Len(Head(sorted)) >= Len(x)
         THEN <<Head(sorted)>> \o InsertByLength(Tail(sorted), x)
         ELSE <<x>> \o sorted

RECURSIVE SortByLength(_)
SortByLength(seq) ==
    IF seq = <<>> THEN <<>>
    ELSE InsertByLength(SortByLength(SubSeq(seq, 1, Len(seq) - 1)), seq[Len(seq)])

\* point.split(" ").slice(0, 5).join(" ").toLowerCase()
firstWords(point) == toLowerCase(Join(Take(Split(point, " "), 5), " "))

\* as isDuplicate, a point counted only when an accepted prefix contains its own
isDuplicateWhenContained(point, unique) ==
    \E k \in 1..Len(unique) : Includes(firstWords(unique[k]), firstWords(point))

isDuplicate(point, unique) ==
    \E k \in 1..Len(unique) :
        \/ Includes(firstWords(unique[k]), firstWords(point))
        \/ Includes(firstWords(point), firstWords(unique[k]))

\* as uniquePoints, a point compared with the last accepted point only
RECURSIVE uniquePointsAgainstLast(_, _)
uniquePointsAgainstLast(points, unique) ==
    IF points = <<>> THEN unique
    ELSE uniquePointsAgainstLast(Tail(points),
                      IF isDuplicate(Head(points), LastN(unique, 1)) THEN unique
                      ELSE Append(unique, Head(points)))

\* lines 208-224: the Set uniquePoints, in insertion order
RECURSIVE uniquePoints(_, _)
uniquePoints(points, unique) ==
    IF points = <<>> THEN unique
    ELSE uniquePoints(Tail(points),
                      IF isDuplicate(Head(points), unique) THEN unique
                      ELSE Append(unique, Head(points)))

RECURSIVE PointLines(_)
PointLines(points) ==
    IF points = <<>> THEN "" ELSE Head(points) \o "\n" \o PointLines(Tail(points))

\* as OverviewSection, without the fallback branch
OverviewSectionNoFallback(frag) ==
    IF Len(frag.overviews) > 0
    THEN SortByLength(frag.overviews)[1] \o "\n\n"
    ELSE "undefined\n\n"

OverviewSection(frag) ==
    IF Len(frag.overviews) > 0
    THEN SortByLength(frag.overviews)[1] \o "\n\n"
    ELSE OverviewFallback

\* as ConclusionSection, the last of the longest fragments taken
ConclusionSectionLastLongest(frag) ==
    IF Len(frag.conclusions) > 0
    THEN LET longest == SelectSeq(frag.conclusions,
                            LAMBDA c : Len(c) = Len(SortByLength(frag.conclusions)[1]))
         IN  longest[Len(longest)] \o "\n"
    ELSE ConclusionFallback

ConclusionSection(frag) ==
    IF Len(frag.conclusions) > 0
    THEN SortByLength(frag.conclusions)[1] \o "\n"
    ELSE ConclusionFallback

Assemble(ts, frag) ==
    TitleHeader \o VideosHeader \o TitleLines(ts, 1)
        \o OverviewHeader \o OverviewSection(frag)
        \o KeyPointsHeader \o PointLines(uniquePoints(frag.points, <<>>))
        \o ConclusionHeader \o ConclusionSection(frag)

mergeSummaries(docs, ts) ==
    Assemble(ts, ForEachSummary(docs,
                 [overviews |-> <<>>, points |-> <<>>, conclusions |-> <<>>]))

-----------------------------------------------------------------------------
(* TypeError: the one way the three functions could end without returning  *)
(* is a property read or a method call on null or undefined.               *)

\* summary.match(/\* (.*?)(?:\n|$)/g) as line 167 holds it: null when nothing
\* matches, the array of matches otherwise
bulletMatch(summary) ==
    IF bulletPoints(summary) = <<>> THEN NoMatch
    ELSE [matched |-> TRUE, all |-> bulletPoints(summary)]

\* as Receivers, without the tests of lines 162 and 168
ReceiversUnguarded(summary) == {overviewMatch(summary), bulletMatch(summary)}

\* the match results one iteration of the callback reads [1] of (line 162,
\* right of &&) or calls forEach on (line 169, inside the if of line 168)
Receivers(summary) ==
    LET m == overviewMatch(summary)
        b == bulletMatch(summary)
    IN  (IF m.matched THEN {m} ELSE {}) \cup (IF b.matched THEN {b} ELSE {})

\* titles is only iterated (line 190), whatever its length
mergeSummariesThrows(docs, ts) ==
    \E i \in 1..Len(docs) : NoMatch \in Receivers(docs[i])

\* the index pairs the loops of lines 140-141 can hand to line 142
IndexPairs(docs) ==
    {<<i, j>> \in (1..Len(docs)) \X (2..Len(docs)) : i < Len(docs) /\ i < j}

\* summaries[i] is undefined outside the array, and line 8 calls toLowerCase
\* on what it is given
areRelatedThrows(docs) ==
    /\ Len(docs) > 1
    /\ \E p \in IndexPairs(docs) : p[1] \notin 1..Len(docs) \/ p[2] \notin 1..Len(docs)

-----------------------------------------------------------------------------
(* youtube.ts                                                              *)

\* the text s has t at position p
HasAt(s, p, t) == p >= 1 /\ p + Len(t) - 1 <= Len(s) /\ SubSeq(s, p, p + Len(t) - 1) = t

\* "." of a regular expression without the s flag
AnyChar(s, p) == p >= 1 /\ p <= Len(s) /\ Char(s, p) \notin LineTerminators

\* ((youtu.be\/)|(v\/)|(\/u\/\w\/)|(embed\/)|(watch\?)) tried at position p:
\* the length of the alternative that matches there, 0 when none does
MarkerAt(url, p) ==
    IF HasAt(url, p, "youtu") /\ AnyChar(url, p + 5) /\ HasAt(url, p + 6, "be/") THEN 9
    ELSE IF HasAt(url, p, "v/") THEN 2
    ELSE IF HasAt(url, p, "/u/") /\ p + 3 <= Len(url) /\ Char(url, p + 3) \in WordChars
            /\ HasAt(url, p + 4, "/") THEN 5
    ELSE IF HasAt(url, p, "embed/") THEN 6
    ELSE IF HasAt(url, p, "watch?") THEN 6
    ELSE 0

\* an optional character of the expression, taken when it is there
SkipOne(url, p, c) == IF HasAt(url, p, c) THEN p + 1 ELSE p

\* lines 4-11, Null or the id found (under id).  "^.*" is greedy, so the marker matched is the last one that
\* only "." characters precede; "\??v?=?" then take what they can, and
\* group 7 is the run of characters other than # & ? that follows
extractVideoId(url) ==
    IF url = "" THEN Null
    ELSE LET markers == {p \in 1..Len(url) :
                            /\ MarkerAt(url, p) > 0
                            /\ \A q \in 1..(p - 1) : AnyChar(url, q)}
         IN  IF markers = {} THEN Null
             ELSE LET p == CHOOSE m \in markers : \A o \in markers : o <= m
                      afterMarker == p + MarkerAt(url, p)
                      start == SkipOne(url, SkipOne(url, SkipOne(url, afterMarker, "?"), "v"), "=")
                      stop == Min({q \in start..(Len(url) + 1) :
                                      q = Len(url) + 1 \/ Char(url, q) \in {"#", "&", "?"}})
                      id == SubSeq(url, start, stop - 1)
                  IN  IF Len(id) = 11 THEN [id |-> id] ELSE Null

\* originalUrl || `https://www.youtube.com/watch?v=${videoId}`
UrlOr(url, videoId) ==
    IF url # "" THEN url ELSE "https://www.youtube.com/watch?v=" \o videoId

\* lines 24-32
createFallbackVideoData(videoId, url) ==
    [transcript |-> "Unable to fetch transcript for video ID: " \o videoId
                        \o ". Using fallback data.",
     title |-> "YouTube Video (ID: " \o videoId \o ")",
     channelTitle |-> "Unknown Channel",
     url |-> UrlOr(url, videoId),
     fallback |-> TRUE]

-----------------------------------------------------------------------------
(* cache-service.ts                                                        *)

\* the printable ASCII characters (but the double quote, backslash and backtick)
\* in the order of their code units, which is the order
\* Array.prototype.sort compares strings in
Ascii ==
    " !#$%&'()*+,-./0123456789:;<=>?@ABCDEFGHIJKLMNOPQRSTUVWXYZ[]^_abcdefghijklmnopqrstuvwxyz{|}~"

\* the rank of a character in that order
charCodeAt(s, i) == Min({k \in 1..Len(Ascii) : Char(Ascii, k) = Char(s, i)})

\* a < b as sort() without a comparator orders strings
Precedes(a, b) ==
    LET differ == {i \in 1..Min({Len(a), Len(b)}) : Char(a, i) # Char(b, i)}
    IN  IF differ = {} THEN Len(a) < Len(b)
        ELSE charCodeAt(a, Min(differ)) < charCodeAt(b, Min(differ))

RECURSIVE InsertSorted(_, _)
InsertSorted(sorted, x) ==
    IF sorted = <<>> THEN <<x>>
    ELSE IF Precedes(x, Head(sorted)) THEN <<x>> \o sorted
    ELSE <<Head(sorted)>> \o InsertSorted(Tail(sorted), x)

\* [...urls].sort()
RECURSIVE Sorted(_)
Sorted(urls) ==
    IF urls = <<>> THEN <<>>
    ELSE InsertSorted(Sorted(SubSeq(urls, 1, Len(urls) - 1)), urls[Len(urls)])

CACHE_EXPIRY ==
    [VIDEO_DATA |-> 7 * 24 * 60 * 60 * 1000,
     SUMMARY |-> 24 * 60 * 60 * 1000,
     ANALYSIS |-> 24 * 60 * 60 * 1000]

CACHE_KEYS ==
    [VIDEO_DATA |-> "youtube_video_data_",
     SUMMARY |-> "youtube_summary_",
     ANALYSIS |-> "youtube_analysis_"]

getVideoDataCacheKey(videoId) == CACHE_KEYS.VIDEO_DATA \o videoId

getSummaryCacheKey(urls, language) ==
    CACHE_KEYS.SUMMARY \o Join(Sorted(urls), "_") \o "_" \o language

\* as isCacheExpired, an item expired as soon as its age reaches the expiry
isCacheExpiredAtExpiry(timestamp, expiryTime, clock) == clock - timestamp >= expiryTime

isCacheExpired(timestamp, expiryTime, clock) == clock - timestamp > expiryTime

\* JSON.parse(JSON.stringify(data)): a property whose value is undefined is
\* left out; the strings, numbers and arrays of the items come back as they
\* went in
Stringified(data) ==
    IF "outputSettings" \in DOMAIN data /\ data.outputSettings = Undefined
    THEN [f \in DOMAIN data \ {"outputSettings"} |-> data[f]]
    ELSE data

\* localStorage.setItem(key, JSON.stringify(data)) inside try/catch: where
\* there is no localStorage the ReferenceError is caught and nothing is stored
setItem(storage, hasStorage, key, data) ==
    IF ~hasStorage THEN storage
    ELSE [k \in DOMAIN storage \cup {key} |->
             IF k = key THEN Stringified(data) ELSE storage[k]]

removeItem(storage, key) == [k \in DOMAIN storage \ {key} |-> storage[k]]

\* lines 94-105: the timestamp given is replaced by Date.now()
cacheVideoData(storage, hasStorage, videoData, clock) ==
    setItem(storage, hasStorage, getVideoDataCacheKey(videoData.videoId),
            [videoData EXCEPT !.timestamp = clock])

\* lines 135-149
cacheSummary(storage, hasStorage, urls, summary, language, outputSettings, clock) ==
    setItem(storage, hasStorage, getSummaryCacheKey(urls, language),
            [urls |-> urls, summary |-> summary, language |-> language,
             outputSettings |-> outputSettings, timestamp |-> clock])

\* lines 110-130 and 154-174 alike: the item under key, Null when there is
\* none, no storage, or the item has expired (it is then removed)
getCached(storage, hasStorage, key, expiryTime, clock) ==
    IF ~hasStorage \/ key \notin DOMAIN storage
    THEN [data |-> Null, storage |-> storage]
    ELSE IF isCacheExpired(storage[key].timestamp, expiryTime, clock)
    THEN [data |-> Null, storage |-> removeItem(storage, key)]
    ELSE [data |-> storage[key], storage |-> storage]

getCachedVideoData(storage, hasStorage, videoId, clock) ==
    getCached(storage, hasStorage, getVideoDataCacheKey(videoId),
              CACHE_EXPIRY.VIDEO_DATA, clock)

getCachedSummary(storage, hasStorage, urls, language, clock) ==
    getCached(storage, hasStorage, getSummaryCacheKey(urls, language),
              CACHE_EXPIRY.SUMMARY, clock)

\* where c stands in s
IndexIn(s, c) == CHOOSE i \in 1..Len(s) : Char(s, i) = c

\* str.charCodeAt(i), the code unit of a letter, a digit, a space or a question mark
CodeUnit(c) ==
    IF c \in CharsOf(UpperCase) THEN 64 + IndexIn(UpperCase, c)
    ELSE IF c \in CharsOf(LowerCase) THEN 96 + IndexIn(LowerCase, c)
    ELSE IF c \in CharsOf(Digits) THEN 47 + IndexIn(Digits, c)
    ELSE IF c = "?" THEN 63 ELSE 32

\* A 32-bit integer is kept as its two 16-bit halves, the value taken
\* modulo 2^32: the numbers of TLC end where those of << and & end.
Half == 65536

\* (hash << 5) - hash + char, then hash & hash: 31 * hash + char modulo 2^32
HashStep(hash, char) ==
    LET low == 31 * hash.lo + char
    IN  [hi |-> (31 * hash.hi + low \div Half) % Half, lo |-> low % Half]

HexDigits == "0123456789abcdef"

RECURSIVE HexOf(_)
HexOf(n) ==
    IF n < 16 THEN Char(HexDigits, n + 1)
    ELSE HexOf(n \div 16) \o Char(HexDigits, (n % 16) + 1)

\* the hexadecimal digits of the number with these halves
HexOfHalves(h) ==
    IF h.hi = 0 THEN HexOf(h.lo)
    ELSE HexOf(h.hi) \o SubSeq("000", 1, 4 - Len(HexOf(h.lo))) \o HexOf(h.lo)

\* Number.prototype.toString(16) of the signed 32-bit integer: a value from
\* 2^31 on is negative, "-" and the digits of 2^32 minus the value
toString16(h) ==
    IF h.hi < Half \div 2 THEN HexOfHalves(h)
    ELSE "-" \o HexOfHalves([hi |-> IF h.lo = 0 THEN Half - h.hi ELSE Half - 1 - h.hi,
                              lo |-> (Half - h.lo) % Half])

\* lines 76-80
RECURSIVE HashFrom(_, _, _)
HashFrom(str, i, hash) ==
    IF i > Len(str) THEN hash
    ELSE HashFrom(str, i + 1, HashStep(hash, CodeUnit(Char(str, i))))

\* lines 74-82
hashString(str) == toString16(HashFrom(str, 1, [hi |-> 0, lo |-> 0]))

\* lines 63-69
getAnalysisCacheKey(urls, questions, language) ==
    CACHE_KEYS.ANALYSIS \o Join(Sorted(urls), "_") \o "_" \o hashString(questions)
        \o "_" \o language

\* lines 179-200
cacheAnalysis(storage, hasStorage, urls, questions, analysis, language, outputSettings, clock) ==
    setItem(storage, hasStorage, getAnalysisCacheKey(urls, questions, language),
            [urls |-> urls, questions |-> questions, analysis |-> analysis,
             language |-> language, outputSettings |-> outputSettings, timestamp |-> clock])

\* lines 205-225
getCachedAnalysis(storage, hasStorage, urls, questions, language, clock) ==
    getCached(storage, hasStorage, getAnalysisCacheKey(urls, questions, language),
              CACHE_EXPIRY.ANALYSIS, clock)

-----------------------------------------------------------------------------
(* transcript-service.ts and fetchVideoData of the summarize route.  What  *)
(* the services outside answer is read from the environment e:             *)
(*   e.video[id]      answer of the YouTube videos request for the video:  *)
(*                    status "error" (network error or abort), "notOk",    *)
(*                    "empty" (no items), "noSnippet" (an item without     *)
(*                    snippet) or "ok" with the snippet's fields           *)
(*   e.transcript[id] answer of the transcript route: status "error",      *)
(*                    "notOk", "disabled", "apiError", "noTranscript" (a   *)
(*                    body without transcript) or "ok" with the items      *)

\* minutes.toString().padStart(2, "0")
PadStart2(n) == IF n < 10 THEN "0" \o ToString(n) ELSE ToString(n)

\* formatTimestamp: MM:SS of an offset in milliseconds
formatTimestamp(offsetMs) ==
    LET totalSeconds == offsetMs \div 1000
    IN  PadStart2(totalSeconds \div 60) \o ":" \o PadStart2(totalSeconds % 60)

NoTranscriptText(title, description) ==
    "Title: " \o title \o "\n\nDescription: " \o description
        \o "\n\n(No transcript available for this video. Using video description as fallback.)"

RECURSIVE TranscriptLines(_)
TranscriptLines(items) ==
    IF items = <<>> THEN ""
    ELSE "[" \o formatTimestamp(Head(items).offset) \o "] " \o Head(items).text \o "\n"
             \o TranscriptLines(Tail(items))

formatTranscript(transcript, title, description) ==
    IF Len(transcript) = 0 THEN NoTranscriptText(title, description)
    ELSE "Title: " \o title \o "\n\nDescription: " \o description
             \o "\n\nTranscript:\n\n" \o TranscriptLines(transcript)

\* fetchTranscript: null, or the body of the answer (an empty transcript
\* when transcripts are disabled)
fetchTranscript(answer, language) ==
    CASE answer.status \in {"error", "notOk", "apiError"} -> Null
      [] answer.status = "disabled" ->
            [transcript |-> <<>>, language |-> IF language # "" THEN language ELSE "en",
             isGenerated |-> FALSE, transcriptDisabled |-> TRUE]
      [] answer.status = "noTranscript" -> [language |-> "en"]
      [] OTHER -> [transcript |-> answer.transcript, language |-> "en", isGenerated |-> FALSE]

\* a || b || c || d || "" over the four thumbnail urls ("" where missing)
FirstUrl(urls) ==
    LET given == SelectSeq(urls, LAMBDA u : u # "") IN IF given = <<>> THEN "" ELSE given[1]

\* the try block of lines 43-125: thrown when an error is thrown in it, else
\* the storage it leaves and the payload it returns
TryFetch(videoId, originalUrl, language, e, storage, clock) ==
    LET answer == e.video[videoId]
        failed == [thrown |-> TRUE, storage |-> storage,
                   message |-> IF answer.status = "notOk"
                               THEN "YouTube API returned status " \o ToString(answer.code)
                               ELSE "fetch failed",
                   payload |-> createFallbackVideoData(videoId, originalUrl)]
    IN  IF answer.status \in {"error", "notOk", "noSnippet"} THEN failed
        ELSE IF answer.status = "empty"
        THEN [failed EXCEPT !.thrown = FALSE]                  \* line 69
        ELSE LET description == IF answer.description # "" THEN answer.description
                                ELSE "No description available."
                 transcriptResponse == fetchTranscript(e.transcript[videoId], language)
             IN  IF transcriptResponse # Null /\ "transcript" \notin DOMAIN transcriptResponse
                 THEN failed                                   \* TypeError at line 87
                 ELSE LET has == transcriptResponse # Null
                                     /\ Len(transcriptResponse.transcript) > 0
                          transcriptText ==
                              IF has THEN formatTranscript(transcriptResponse.transcript,
                                                           answer.title, description)
                              ELSE NoTranscriptText(answer.title, description)
                      IN  [thrown |-> FALSE, message |-> "",
                           storage |-> cacheVideoData(storage, e.hasStorage,
                               [videoId |-> videoId, title |-> answer.title,
                                channelTitle |-> answer.channelTitle,
                                description |-> description, transcript |-> transcriptText,
                                thumbnailUrl |-> FirstUrl(answer.thumbnails),
                                publishedAt |-> answer.publishedAt, timestamp |-> clock], clock),
                           payload |-> [transcript |-> transcriptText, title |-> answer.title,
                                        channelTitle |-> answer.channelTitle,
                                        url |-> UrlOr(originalUrl, videoId),
                                        fallback |-> ~has]]

\* lines 25-41: the cached payload, or the fallback for want of an API key
BeforeTry(videoId, originalUrl, cached) ==
    [thrown |-> FALSE, message |-> "", storage |-> cached.storage,
     payload |-> IF cached.data # Null
                 THEN [transcript |-> cached.data.transcript, title |-> cached.data.title,
                       channelTitle |-> cached.data.channelTitle,
                       url |-> UrlOr(originalUrl, videoId), fallback |-> FALSE]
                 ELSE createFallbackVideoData(videoId, originalUrl)]

\* as fetchVideoData, without the catch of lines 126-129
fetchVideoDataUncaught(videoId, originalUrl, language, e, storage, clock) ==
    LET cached == getCachedVideoData(storage, e.hasStorage, videoId, clock)
    IN  IF cached.data # Null \/ ~e.YOUTUBE_API_KEY
        THEN BeforeTry(videoId, originalUrl, cached)
        ELSE TryFetch(videoId, originalUrl, language, e, cached.storage, clock)

\* lines 14-130; thrown says whether the call rejects, storage is the
\* storage it leaves
fetchVideoData(videoId, originalUrl, language, e, storage, clock) ==
    LET cached == getCachedVideoData(storage, e.hasStorage, videoId, clock)
        tried == TryFetch(videoId, originalUrl, language, e, cached.storage, clock)
    IN  IF cached.data # Null \/ ~e.YOUTUBE_API_KEY
        THEN BeforeTry(videoId, originalUrl, cached)
        ELSE IF tried.thrown
        THEN [tried EXCEPT !.thrown = FALSE]                   \* lines 126-129
        ELSE tried

-----------------------------------------------------------------------------
(* fallback-summarizer.ts                                                  *)

\* text.match(/Title: (.*?)(?:\n|$)/): the leftmost "Title: " whose line
\* runs to a "\n" or to the end of the text
titleMatch(text) ==
    LET MatchAt(p) == IF HasAt(text, p, "Title: ") THEN LazyLine(text, p + 7, "\n")
                      ELSE NoMatch
        starts == {p \in 1..Len(text) : MatchAt(p).matched}
    IN  IF starts = {} THEN NoMatch ELSE MatchAt(Min(starts))

\* text.match(/Description: ([\s\S]*?)(?:\n\n|\(This is a simulated|$)/):
\* after the leftmost "Description: ", everything up to the first blank
\* line or "(This is a simulated", or up to the end
descriptionMatch(text) ==
    LET starts == {p \in 1..Len(text) : HasAt(text, p, "Description: ")}
    IN  IF starts = {} THEN NoMatch
        ELSE LET q == Min(starts) + 13
                 stop == Min({at \in q..(Len(text) + 1) :
                                 \/ at = Len(text) + 1
                                 \/ HasAt(text, at, "\n\n")
                                 \/ HasAt(text, at, "(This is a simulated")})
             IN  [matched |-> TRUE, capture |-> SubSeq(text, q, stop - 1)]

\* description.split(/[.!?]/)
RECURSIVE SplitSentencesFrom(_, _)
SplitSentencesFrom(s, start) ==
    LET ends == {i \in start..Len(s) : Char(s, i) \in {".", "!", "?"}}
    IN  IF ends = {} THEN <<SubSeq(s, start, Len(s))>>
        ELSE <<SubSeq(s, start, Min(ends) - 1)>> \o SplitSentencesFrom(s, Min(ends) + 1)

sentencesOf(description) ==
    Take(SelectSeq(SplitSentencesFrom(description, 1), LAMBDA x : Len(Trim(x)) > 10), 5)

RECURSIVE SentenceBullets(_)
SentenceBullets(sentences) ==
    IF sentences = <<>> THEN ""
    ELSE "* " \o Trim(Head(sentences)) \o "\n" \o SentenceBullets(Tail(sentences))

\* lines 272-320
generateBasicSummary(text, title) ==
    LET tm == titleMatch(text)
        dm == descriptionMatch(text)
        extractedTitle == IF tm.matched THEN tm.capture ELSE title
        description == IF dm.matched THEN Trim(dm.capture) ELSE ""
        about == IF Includes(toLowerCase(extractedTitle), "how")
                 THEN "a tutorial or guide"
                 ELSE "a topic related to " \o Join(Take(Split(extractedTitle, " "), 3), " ")
        keyPoints ==
            IF description # ""
            THEN IF Len(sentencesOf(description)) > 0
                 THEN SentenceBullets(sentencesOf(description))
                 ELSE "* Limited information available from the video description\n"
                          \o "* Consider watching the full video for more details\n"
            ELSE "* Limited information available from the video\n"
                     \o "* Consider watching the full video for more details\n"
    IN  "### " \o extractedTitle \o "\n\n"
            \o "This video appears to be about " \o about \o ".\n\n"
            \o "#### Key points:\n\n" \o keyPoints
            \o "\n#### Summary:\n\n"
            \o "This is a basic summary generated without AI assistance. For a more detailed summary, please try again when the AI service is available."

-----------------------------------------------------------------------------
(* summarizeWithGemini of the summarize route.  e.fails are the models     *)
(* whose generateContent (or response.text()) throws; e.answers gives, by  *)
(* video title, the text the other models answer ("*": any other title).   *)

\* lines 201-229; the instructions in other scripts than Latin are named
\* here, not spelled
getLanguageInstructions(language) ==
    CASE language = "id" -> "Buatlah ringkasan dalam bahasa Indonesia."
      [] language = "es" -> "Crea un resumen en español."
      [] language = "fr" -> "Créez un résumé en français."
      [] language = "de" -> "Erstellen Sie eine Zusammenfassung auf Deutsch."
      [] language = "zh" -> "(instructions in Chinese)"
      [] language = "ja" -> "(instructions in Japanese)"
      [] language = "ko" -> "(instructions in Korean)"
      [] language = "ar" -> "(instructions in Arabic)"
      [] language = "hi" -> "(instructions in Hindi)"
      [] language = "pt" -> "Crie um resumo em português."
      [] language = "ru" -> "(instructions in Russian)"
      [] OTHER -> "Create a summary in English."

\* as modelOptions, the lite model tried last
modelOptionsLiteLast == <<"gemini-1.5-pro", "gemini-1.0-pro", "gemini-pro", "gemini-2.0-flash-lite">>

modelOptions == <<"gemini-2.0-flash-lite", "gemini-1.5-pro", "gemini-1.0-pro", "gemini-pro">>

\* the parts lines 158-176 put into the prompt
Prompt(text, videoTitle, language) ==
    [languageInstructions |-> getLanguageInstructions(language),
     videoTitle |-> videoTitle, text |-> text]

Answer(e, videoTitle) ==
    IF videoTitle \in DOMAIN e.answers THEN e.answers[videoTitle] ELSE e.answers["*"]

\* the loop of lines 150-186 from model i on, made the generateContent
\* calls made so far, then lines 189-190
RECURSIVE TryModels(_, _, _, _, _, _)
TryModels(text, videoTitle, language, e, i, made) ==
    IF i > Len(modelOptions)
    THEN [text |-> generateBasicSummary(text, videoTitle), calls |-> made]
    ELSE LET call == [model |-> modelOptions[i], prompt |-> Prompt(text, videoTitle, language)]
         IN  IF modelOptions[i] \in e.fails
             THEN TryModels(text, videoTitle, language, e, i + 1, Append(made, call))
             ELSE [text |-> Answer(e, videoTitle), calls |-> Append(made, call)]

\* lines 133-198: the text returned and the generateContent calls made
summarizeWithGemini(text, videoTitle, language, outputSettings, e) ==
    IF ~e.GEMINI_API_KEY
    THEN [text |-> generateBasicSummary(text, videoTitle), calls |-> <<>>]
    ELSE TryModels(text, videoTitle, language, e, 1, <<>>)

-----------------------------------------------------------------------------
(* POST of the summarize route (lines 231-390)                             *)

\* stands for the warning sign U+26A0 U+FE0F of lines 271, 299, 344 and 355
Warning == "(!)"

\* a property of the request body, or what line 233 reads when it is missing
Field(body, name, default) == IF name \in DOMAIN body THEN body[name] ELSE default

\* lines 266-303 for one url, the video cache read as it is when the handler
\* starts the mapping: every callback runs up to its first await before any
\* of them caches a video
ProcessSummarized(videoId, fetched, made) ==
    [error |-> FALSE, videoId |-> videoId, title |-> fetched.payload.title,
     channelTitle |-> fetched.payload.channelTitle,
     url |-> fetched.payload.url, summary |-> made.text,
     fallback |-> fetched.payload.fallback, calls |-> made.calls,
     fetched |-> fetched]

\* lines 275-303: the try block and its catch, fetched what fetchVideoData
\* answered
ProcessFetched(url, language, outputSettings, e, videoId, fetched) ==
    IF fetched.thrown
    THEN [error |-> TRUE, url |-> url, calls |-> <<>>, videoId |-> videoId,
          fetched |-> fetched,
          message |-> Warning \o " Failed to summarize video: " \o url
              \o "\n\nError: " \o fetched.message]
    ELSE ProcessSummarized(videoId, fetched,
             summarizeWithGemini(fetched.payload.transcript, fetched.payload.title,
                                 language, outputSettings, e))

\* lines 267-303, found what extractVideoId answered
ProcessFound(url, language, outputSettings, e, storage, clock, found) ==
    IF found = Null
    THEN [error |-> TRUE, url |-> url, calls |-> <<>>, videoId |-> "", fetched |-> Null,
          message |-> Warning \o " Invalid YouTube URL: " \o url
              \o "\n\nCould not extract a valid YouTube video ID from this URL."]
    ELSE ProcessFetched(url, language, outputSettings, e, found.id,
             fetchVideoData(found.id, url, language, e, storage, clock))

ProcessUrl(url, language, outputSettings, e, storage, clock) ==
    ProcessFound(url, language, outputSettings, e, storage, clock, extractVideoId(url))

\* what the callbacks leave in the storage: each touches the key of its video
RECURSIVE StorageAfter(_, _, _)
StorageAfter(videoResults, i, storage) ==
    IF i > Len(videoResults) THEN storage
    ELSE LET r == videoResults[i]
             key == getVideoDataCacheKey(r.videoId)
             after == IF r.fetched = Null THEN storage
                      ELSE IF key \in DOMAIN r.fetched.storage
                      THEN [k \in DOMAIN storage \cup {key} |->
                               IF k = key THEN r.fetched.storage[k] ELSE storage[k]]
                      ELSE removeItem(storage, key)
         IN  StorageAfter(videoResults, i + 1, after)

\* lines 344-346 and 355-357: one summary under its heading
Section(r, rule) ==
    "## Summary for [" \o r.title \o "](" \o r.url \o ")\n\n"
        \o (IF r.fallback
            THEN Warning \o " *Limited data available: Could not fetch complete video information*"
            ELSE "*Channel: " \o r.channelTitle \o "*")
        \o "\n\n" \o r.summary \o "\n\n" \o rule

RECURSIVE Sections(_)
Sections(results) ==
    IF results = <<>> THEN "" ELSE Section(Head(results), "---\n\n") \o Sections(Tail(results))

RECURSIVE Messages(_)
Messages(results) ==
    IF results = <<>> THEN "" ELSE Head(results).message \o "\n\n" \o Messages(Tail(results))

RECURSIVE AllCalls(_)
AllCalls(results) ==
    IF results = <<>> THEN <<>> ELSE Head(results).calls \o AllCalls(Tail(results))

Summaries(results) == [i \in 1..Len(results) |-> results[i].summary]
Titles(results) == [i \in 1..Len(results) |-> results[i].title]

\* as SummaryBody, merging whenever there are two summaries or more
SummaryBodyAlwaysMerged(successfulResults) ==
    IF Len(successfulResults) > 1
    THEN [areVideosRelated |-> TRUE,
          finalSummary |-> mergeSummaries(Summaries(successfulResults),
                                          Titles(successfulResults))]
    ELSE IF Len(successfulResults) = 1
    THEN [areVideosRelated |-> FALSE, finalSummary |-> Section(successfulResults[1], "")]
    ELSE [areVideosRelated |-> FALSE, finalSummary |-> ""]

\* lines 323-359
SummaryBody(successfulResults) ==
    IF Len(successfulResults) > 1
    THEN LET related == areRelated(Summaries(successfulResults), Undefined)
         IN  [areVideosRelated |-> related,
              finalSummary |-> IF related
                               THEN mergeSummaries(Summaries(successfulResults),
                                                   Titles(successfulResults))
                               ELSE Sections(successfulResults)]
    ELSE IF Len(successfulResults) = 1
    THEN [areVideosRelated |-> FALSE, finalSummary |-> Section(successfulResults[1], "")]
    ELSE [areVideosRelated |-> FALSE, finalSummary |-> ""]

\* as ErrorsSection, only the first message listed
ErrorsSectionFirstOnly(errorResults) ==
    IF Len(errorResults) > 0
    THEN "\n## Errors\n\n" \o errorResults[1].message \o "\n\n"
    ELSE ""

\* lines 362-367
ErrorsSection(errorResults) ==
    IF Len(errorResults) > 0
    THEN "\n## Errors\n\n" \o Messages(errorResults)
    ELSE ""

\* lines 265-304: the results of the urls, in the order of the urls
VideoResults(body, e, storage, clock) ==
    [i \in 1..Len(body.urls) |->
        ProcessUrl(body.urls[i], Field(body, "language", "en"),
                   Field(body, "outputSettings", Undefined), e, storage, clock)]

\* lines 264-379: the response computed from the videos, the storage left
\* and the generateContent calls made
Respond(body, e, clock, successfulResults, errorResults, made, fetched) ==
    [response |->
         [status |-> 200,
          summary |-> made.finalSummary \o ErrorsSection(errorResults),
          areVideosRelated |-> made.areVideosRelated,
          videoCount |-> Len(successfulResults), errorCount |-> Len(errorResults)],
     storage |->
         IF Len(errorResults) = 0 /\ Field(body, "feedback", "") = ""
         THEN cacheSummary(fetched, e.hasStorage, body.urls,
                           made.finalSummary \o ErrorsSection(errorResults),
                           Field(body, "language", "en"),
                           Field(body, "outputSettings", Undefined), clock)
         ELSE fetched]

\* lines 307-379 over the results of the urls
Summarized(body, e, storage, clock, videoResults, successfulResults) ==
    [videoResults |-> videoResults, calls |-> AllCalls(videoResults)]
    @@ Respond(body, e, clock, successfulResults,
               SelectSeq(videoResults, LAMBDA r : r.error),
               SummaryBody(successfulResults),
               StorageAfter(videoResults, 1, storage))

Filtered(body, e, storage, clock, videoResults) ==
    Summarized(body, e, storage, clock, videoResults,
               SelectSeq(videoResults, LAMBDA r : ~r.error))

Compute(body, e, storage, clock) ==
    Filtered(body, e, storage, clock, VideoResults(body, e, storage, clock))

\* lines 231-390
Handled(body, e, storage, clock, urls, skipCache, feedback, editedContent, cached) ==
    IF Len(urls) = 0
    THEN [response |-> [status |-> 400,
                        error |-> "Please provide at least one valid YouTube URL"],
          storage |-> storage, calls |-> <<>>, videoResults |-> <<>>]
    ELSE IF editedContent # ""
    THEN [response |-> [status |-> 200, summary |-> editedContent,
                        videoCount |-> Len(urls), errorCount |-> 0, isEdited |-> TRUE],
          storage |-> storage, calls |-> <<>>, videoResults |-> <<>>]
    ELSE IF ~skipCache /\ feedback = "" /\ cached.data # Null
    THEN [response |-> [status |-> 200, summary |-> cached.data.summary,
                        areVideosRelated |-> TRUE, videoCount |-> Len(urls),
                        errorCount |-> 0, fromCache |-> TRUE],
          storage |-> cached.storage, calls |-> <<>>, videoResults |-> <<>>]
    ELSE Compute(body, e,
                 IF ~skipCache /\ feedback = "" THEN cached.storage ELSE storage, clock)

Handle(body, e, storage, clock) ==
    Handled(body, e, storage, clock,
            Field(body, "urls", <<>>), Field(body, "skipCache", FALSE),
            Field(body, "feedback", ""), Field(body, "editedContent", ""),
            getCachedSummary(storage, e.hasStorage, Field(body, "urls", <<>>),
                             Field(body, "language", "en"), clock))

-----------------------------------------------------------------------------
(* The inputs of the calls                                                 *)

MaxTextParts == 2       \* parts of one text given to calculateSimilarity
MaxRelatedParts == 4    \* parts of one batch given to areRelated
MaxMergeParts == 4      \* parts of one batch given to mergeSummaries
MaxTitles == 2          \* titles given to mergeSummaries

\* every text written with at most n parts of P
RECURSIVE TextsOver(_, _)
TextsOver(P, n) ==
    IF n = 0 THEN {""}
    ELSE LET shorter == TextsOver(P, n - 1)
         IN  shorter \cup {s \o part : s \in shorter, part \in P}

\* A batch is written with parts of P and document ends: docs are the
\* documents ended so far, open the parts after the last document end.
RECURSIVE BatchesOver(_, _)
BatchesOver(P, n) ==
    IF n = 0 THEN {[docs |-> <<>>, open |-> ""]}
    ELSE LET shorter == BatchesOver(P, n - 1)
         IN  shorter
             \cup {[docs |-> b.docs, open |-> b.open \o part] : b \in shorter, part \in P}
             \cup {[docs |-> Append(b.docs, b.open), open |-> ""] : b \in shorter}

\* every batch written with at most n parts and document ends
Batches(P, n) ==
    {IF b.open = "" THEN b.docs ELSE Append(b.docs, b.open) : b \in BatchesOver(P, n)}

TextParts == {"cat ", "Dog, ", "the emu\n", "e-mu ", "ox "}
Texts == TextsOver(TextParts, MaxTextParts)

RelatedParts == {"cat dog emu ", "Cat fox hen yak ", "cat dog emu owl "}
RelatedBatches == Batches(RelatedParts, MaxRelatedParts)
Thresholds == {Undefined, Zero, Fraction(1, 6), Fraction(1, 2), One}

Bullet == "* Uses blockchain for security"
MergeParts == {"Intro text here", "\n\n", "\n", Bullet}
MergeBatches == Batches(MergeParts, MaxMergeParts)

TitleSeq(k) == [i \in 1..k |-> "Video " \o ToString(i)]
TitleSeqs == {TitleSeq(k) : k \in 0..MaxTitles}

\* the calls made again and again in SpecRepeat
RepeatTexts == {"cat ", "Dog, cat "}
RepeatBatches ==
    {<<>>, <<Bullet>>, <<"Intro text here\n\n" \o Bullet>>,
     <<"Intro text here\n\n" \o Bullet, "* Uses\n\nIntro text here">>}

\* the videos, their urls, and what the services outside answer for them
VideoA == "AAAAAAAAAAA"
VideoB == "BBBBBBBBBBB"
UrlA == "https://youtu.be/AAAAAAAAAAA"
UrlB == "https://www.youtube.com/watch?v=BBBBBBBBBBB&t=42"
UrlBad == "https://youtu.be/short"
UrlNone == "https://example.com/clip"

SnippetA ==
    [status |-> "ok", code |-> 200, title |-> "Rust Basics", channelTitle |-> "Rustacean",
     description |-> "How ownership works. Cargo builds the project for you!",
     thumbnails |-> <<"", "https://i.ytimg.com/vi/AAAAAAAAAAA/hq.jpg", "", "">>,
     publishedAt |-> "2024-01-01T00:00:00Z"]
SnippetB ==
    [status |-> "ok", code |-> 200, title |-> "Sourdough", channelTitle |-> "Baker",
     description |-> "",
     thumbnails |-> <<"", "", "", "">>,
     publishedAt |-> "2024-02-02T00:00:00Z"]

VideoAnswers(snippet) ==
    {snippet,
     [snippet EXCEPT !.status = "error"],
     [snippet EXCEPT !.status = "notOk", !.code = 403],
     [snippet EXCEPT !.status = "empty"],
     [snippet EXCEPT !.status = "noSnippet"]}

TranscriptItems ==
    <<[text |-> "Welcome to Rust", offset |-> 0, duration |-> 2000],
      [text |-> "Ownership prevents data races", offset |-> 65000, duration |-> 3000]>>

TranscriptAnswers ==
    {[status |-> "ok", transcript |-> TranscriptItems],
     [status |-> "ok", transcript |-> <<>>],
     [status |-> "error", transcript |-> <<>>],
     [status |-> "notOk", transcript |-> <<>>],
     [status |-> "disabled", transcript |-> <<>>],
     [status |-> "apiError", transcript |-> <<>>],
     [status |-> "noTranscript", transcript |-> <<>>]}

\* summaries as the models write them: two on Rust that share keywords and
\* a bullet, one on something else
AnswerRust ==
    "Rust is a systems language.\n\n* Ownership prevents data races\n* Cargo builds projects\n\nRust makes systems code safe."
AnswerOwnership ==
    "Ownership is central to Rust.\n\n* Ownership prevents data races\n* Borrowing avoids copies\n\nRust ownership makes systems code safe."
AnswerBread ==
    "Sourdough needs patience.\n\n* Feed the starter daily\n\nBaking bread rewards planning."

AnswerTables ==
    {[t \in {"Rust Basics", "Sourdough", "*"} |->
         IF t = "Rust Basics" THEN AnswerRust ELSE other] : other \in {AnswerOwnership, AnswerBread}}

BaseEnv ==
    [YOUTUBE_API_KEY |-> TRUE, GEMINI_API_KEY |-> TRUE, hasStorage |-> TRUE,
     video |-> [v \in {VideoA, VideoB} |-> IF v = VideoA THEN SnippetA ELSE SnippetB],
     transcript |-> [v \in {VideoA, VideoB} |->
                        [status |-> "ok",
                         transcript |-> IF v = VideoA THEN TranscriptItems ELSE <<>>]],
     fails |-> {},
     answers |-> [t \in {"Rust Basics", "Sourdough", "*"} |->
                     IF t = "Rust Basics" THEN AnswerRust ELSE AnswerOwnership]]

\* a stored video as cacheVideoData leaves it at time stamp
StoredVideo(videoId, snippet, stamp) ==
    [videoId |-> videoId, title |-> snippet.title, channelTitle |-> snippet.channelTitle,
     description |-> snippet.description,
     transcript |-> formatTranscript(TranscriptItems, snippet.title, snippet.description),
     thumbnailUrl |-> FirstUrl(snippet.thumbnails), publishedAt |-> snippet.publishedAt,
     timestamp |-> stamp]

-----------------------------------------------------------------------------
(* The calls                                                               *)

\* the handler, its services and the component take no part
NoService ==
    /\ args = Undefined /\ env = Undefined /\ localStorage = <<>>
    /\ now = 0 /\ calls = <<>> /\ client = Undefined /\ served = 0 /\ settled = <<>>

NoArguments ==
    /\ text1 = "" /\ text2 = ""
    /\ summaries = <<>> /\ threshold = Undefined /\ titles = <<>>

NoLocals == allPoints = <<>> /\ allOverviews = <<>> /\ allConclusions = <<>>

\* nothing has been called
InitRepeat ==
    /\ pc = "done" /\ fn = "none"
    /\ NoArguments /\ NoLocals
    /\ result = Undefined /\ thrown = FALSE /\ prior = NoCall
    /\ NoService

\* calculateSimilarity(text1, text2) has been entered
InitSimilarity ==
    /\ pc = "call" /\ fn = "calculateSimilarity"
    /\ text1 \in Texts /\ text2 \in Texts
    /\ summaries = <<>> /\ threshold = Undefined /\ titles = <<>>
    /\ NoLocals /\ result = Undefined /\ thrown = FALSE /\ prior = NoCall
    /\ NoService

\* areRelated(summaries, threshold) has been entered
InitRelated ==
    /\ pc = "call" /\ fn = "areRelated"
    /\ summaries \in RelatedBatches /\ threshold \in Thresholds
    /\ text1 = "" /\ text2 = "" /\ titles = <<>>
    /\ NoLocals /\ result = Undefined /\ thrown = FALSE /\ prior = NoCall
    /\ NoService

\* mergeSummaries(summaries, titles) has been entered
InitMerge ==
    /\ pc = "call" /\ fn = "mergeSummaries"
    /\ summaries \in MergeBatches /\ titles \in TitleSeqs
    /\ text1 = "" /\ text2 = "" /\ threshold = Undefined
    /\ NoLocals /\ result = Undefined /\ thrown = FALSE /\ prior = NoCall
    /\ NoService

Init == InitSimilarity \/ InitRelated \/ InitMerge

CalculateSimilarity ==
    /\ pc = "call" /\ fn = "calculateSimilarity"
    /\ result' = calculateSimilarity(text1, text2)
    /\ thrown' = FALSE      \* every receiver of lines 6-133 is a string
                            \* argument or a collection built there
    /\ pc' = "done"
    /\ UNCHANGED <<fn, text1, text2, summaries, threshold, titles,
                   allPoints, allOverviews, allConclusions, prior>>
    /\ UNCHANGED serviceVars

AreRelated ==
    /\ pc = "call" /\ fn = "areRelated"
    /\ thrown' = areRelatedThrows(summaries)
    /\ result' = IF thrown' THEN Undefined ELSE areRelated(summaries, threshold)
    /\ pc' = "done"
    /\ UNCHANGED <<fn, text1, text2, summaries, threshold, titles,
                   allPoints, allOverviews, allConclusions, prior>>
    /\ UNCHANGED serviceVars

\* as MergeSummaries, the three arrays kept from the call before (as they
\* would be were they declared outside the function)
MergeSummariesKeepingArrays ==
    LET frag == ForEachSummary(summaries,
                    [overviews |-> allOverviews, points |-> allPoints,
                     conclusions |-> allConclusions])
    IN  /\ pc = "call" /\ fn = "mergeSummaries"
        /\ allPoints' = frag.points
        /\ allOverviews' = frag.overviews
        /\ allConclusions' = frag.conclusions
        /\ thrown' = mergeSummariesThrows(summaries, titles)
        /\ result' = IF thrown' THEN Undefined ELSE Assemble(titles, frag)
        /\ pc' = "done"
        /\ UNCHANGED <<fn, text1, text2, summaries, threshold, titles, prior>>
        /\ UNCHANGED serviceVars

\* lines 155-157 (the three arrays start empty), then the rest of the body
MergeSummaries ==
    LET frag == ForEachSummary(summaries,
                    [overviews |-> <<>>, points |-> <<>>, conclusions |-> <<>>])
    IN  /\ pc = "call" /\ fn = "mergeSummaries"
        /\ allPoints' = frag.points
        /\ allOverviews' = frag.overviews
        /\ allConclusions' = frag.conclusions
        /\ thrown' = mergeSummariesThrows(summaries, titles)
        /\ result' = IF thrown' THEN Undefined ELSE Assemble(titles, frag)
        /\ pc' = "done"
        /\ UNCHANGED <<fn, text1, text2, summaries, threshold, titles, prior>>
        /\ UNCHANGED serviceVars

Next == CalculateSimilarity \/ AreRelated \/ MergeSummaries

\* The caller's next call, for SpecRepeat.  prior either becomes the call
\* that has just returned, when that was a mergeSummaries call, or stays and
\* notes in between which function has been called since.
Remember ==
    \/ /\ fn = "mergeSummaries"
       /\ prior' = [called |-> TRUE, summaries |-> summaries, titles |-> titles,
                    result |-> result, between |-> {}]
    \/ /\ prior.called
       /\ prior' = [prior EXCEPT !.between = @ \cup {fn}]
    \/ /\ ~prior.called
       /\ prior' = prior

EnterSimilarity ==
    /\ pc = "done"
    /\ pc' = "call" /\ fn' = "calculateSimilarity"
    /\ text1' \in RepeatTexts /\ text2' \in RepeatTexts
    /\ summaries' = <<>> /\ threshold' = Undefined /\ titles' = <<>>
    /\ result' = Undefined /\ thrown' = FALSE
    /\ Remember
    /\ UNCHANGED <<allPoints, allOverviews, allConclusions>>
    /\ UNCHANGED serviceVars

EnterRelated ==
    /\ pc = "done"
    /\ pc' = "call" /\ fn' = "areRelated"
    /\ summaries' \in RepeatBatches /\ threshold' = Undefined
    /\ text1' = "" /\ text2' = "" /\ titles' = <<>>
    /\ result' = Undefined /\ thrown' = FALSE
    /\ Remember
    /\ UNCHANGED <<allPoints, allOverviews, allConclusions>>
    /\ UNCHANGED serviceVars

EnterMerge ==
    /\ pc = "done"
    /\ pc' = "call" /\ fn' = "mergeSummaries"
    /\ summaries' \in RepeatBatches /\ titles' = TitleSeq(Len(summaries'))
    /\ text1' = "" /\ text2' = "" /\ threshold' = Undefined
    /\ result' = Undefined /\ thrown' = FALSE
    /\ Remember
    /\ UNCHANGED <<allPoints, allOverviews, allConclusions>>
    /\ UNCHANGED serviceVars

NextRepeat ==
    \/ EnterSimilarity \/ EnterRelated \/ EnterMerge
    \/ CalculateSimilarity \/ AreRelated \/ MergeSummaries

-----------------------------------------------------------------------------
(* The calls of the services and of the handler                            *)

MaxUrls == 3            \* different urls of one request

Hour == 60 * 60 * 1000
\* Date.now() at the calls: eight days after the oldest stored item
Clock == 8 * 24 * Hour

\* the analyzer is called by nobody but the handler
NoCore == NoArguments /\ NoLocals /\ prior = NoCall

FetchArgs ==
    {[videoId |-> VideoA, originalUrl |-> u, language |-> l] :
        u \in {"", UrlA}, l \in {"", "id"}}

FetchEnvs ==
    {[BaseEnv EXCEPT !.YOUTUBE_API_KEY = key, !.hasStorage = has,
                     !.video[VideoA] = v, !.transcript[VideoA] = t] :
        key \in BOOLEAN, has \in BOOLEAN,
        v \in VideoAnswers(SnippetA), t \in TranscriptAnswers}

\* no stored video, one stored an hour ago, one stored eight days ago
FetchStorages ==
    {<<>>} \cup {[k \in {getVideoDataCacheKey(VideoA)} |-> StoredVideo(VideoA, SnippetA, stamp)] :
                    stamp \in {Clock - Hour, 0}}

\* fetchVideoData(videoId, originalUrl, language) has been entered
InitFetch ==
    /\ pc = "call" /\ fn = "fetchVideoData"
    /\ args \in FetchArgs /\ env \in FetchEnvs
    /\ localStorage \in FetchStorages
    /\ (localStorage # <<>> => env.hasStorage)
    /\ now = Clock /\ calls = <<>> /\ client = Undefined /\ served = 0 /\ settled = <<>>
    /\ result = Undefined /\ thrown = FALSE /\ NoCore

FetchVideoData ==
    /\ pc = "call" /\ fn = "fetchVideoData"
    /\ \E fetched \in {fetchVideoData(args.videoId, args.originalUrl, args.language,
                                       env, localStorage, now)} :
           /\ thrown' = fetched.thrown
           /\ result' = IF fetched.thrown THEN Undefined ELSE fetched.payload
           /\ localStorage' = fetched.storage
           /\ pc' = "done"
           /\ UNCHANGED <<fn, args, env, now, calls, client, served, settled>>
           /\ UNCHANGED coreVars

ModelNames == {"gemini-2.0-flash-lite", "gemini-1.5-pro", "gemini-1.0-pro", "gemini-pro"}

GeminiArgs ==
    {[text |-> t, videoTitle |-> title, language |-> l, outputSettings |-> Undefined] :
        t \in {createFallbackVideoData(VideoA, "").transcript,
               NoTranscriptText("Rust Basics", SnippetA.description),
               formatTranscript(TranscriptItems, "Sourdough", "No description available.")},
        title \in {"Rust Basics", "How to bake"}, l \in {"en", "id"}}

GeminiEnvs ==
    {[BaseEnv EXCEPT !.GEMINI_API_KEY = key, !.fails = fails, !.answers = table] :
        key \in BOOLEAN, fails \in SUBSET ModelNames, table \in AnswerTables}

\* summarizeWithGemini(text, videoTitle, language, outputSettings) has been
\* entered
InitGemini ==
    /\ pc = "call" /\ fn = "summarizeWithGemini"
    /\ args \in GeminiArgs /\ env \in GeminiEnvs
    /\ localStorage = <<>> /\ now = Clock /\ calls = <<>> /\ client = Undefined /\ served = 0 /\ settled = <<>>
    /\ result = Undefined /\ thrown = FALSE /\ NoCore

SummarizeWithGemini ==
    /\ pc = "call" /\ fn = "summarizeWithGemini"
    /\ \E made \in {summarizeWithGemini(args.text, args.videoTitle, args.language,
                                         args.outputSettings, env)} :
           /\ result' = made.text
           /\ calls' = made.calls
           /\ thrown' = FALSE     \* lines 181 and 191 catch what lines 153-180 throw
           /\ pc' = "done"
           /\ UNCHANGED <<fn, args, env, localStorage, now, client, served, settled>>
           /\ UNCHANGED coreVars

\* the sequences of at most n different urls, and each url given twice
RECURSIVE DifferentUrls(_, _)
DifferentUrls(urls, n) ==
    IF n = 0 THEN {<<>>}
    ELSE LET shorter == DifferentUrls(urls, n - 1)
         IN  shorter \cup UNION {{Append(q, u) : u \in urls \ {q[i] : i \in 1..Len(q)}} :
                                  q \in shorter}

UrlSeqs(urls, n) == DifferentUrls(urls, n) \cup {<<u, u>> : u \in urls}

\* request bodies: the urls alone, with a language, with edits and feedback
Bodies(urlSeqs) ==
    UNION {{[urls |-> q],
            [urls |-> q, language |-> "id"],
            [urls |-> q, feedback |-> "Make it shorter", editedContent |-> "My own words"]} :
           q \in urlSeqs}

\* with and without the YouTube key: both models' tables answered, every
\* model failing, no Gemini key
PostEnvs ==
    UNION {{[BaseEnv EXCEPT !.YOUTUBE_API_KEY = yt, !.answers = table] : table \in AnswerTables}
           \cup {[BaseEnv EXCEPT !.YOUTUBE_API_KEY = yt, !.fails = ModelNames],
                 [BaseEnv EXCEPT !.YOUTUBE_API_KEY = yt, !.GEMINI_API_KEY = FALSE]} :
           yt \in BOOLEAN}

\* POST(request) has been entered, nothing stored yet
InitPost ==
    /\ pc = "call" /\ fn = "POST"
    /\ args \in Bodies(UrlSeqs({UrlA, UrlB, UrlBad, UrlNone}, MaxUrls)) /\ env \in PostEnvs
    /\ localStorage = <<>> /\ now = Clock /\ calls = <<>> /\ client = Undefined /\ served = 0 /\ settled = <<>>
    /\ result = Undefined /\ thrown = FALSE /\ NoCore

\* the whole handler; summaries and titles are those of lines 328-329
Post ==
    /\ pc = "call" /\ fn = "POST"
    /\ \E handled \in {Handle(args, env, localStorage, now)} :
       \E successfulResults \in {SelectSeq(handled.videoResults, LAMBDA r : ~r.error)} :
           /\ result' = handled.response
           /\ localStorage' = handled.storage
           /\ calls' = handled.calls
           /\ summaries' = IF Len(successfulResults) > 1 THEN Summaries(successfulResults)
                           ELSE <<>>
           /\ titles' = IF Len(successfulResults) > 1 THEN Titles(successfulResults) ELSE <<>>
           /\ thrown' = FALSE
           /\ pc' = "done"
           /\ UNCHANGED <<fn, args, env, now, client, served, settled>>
           /\ UNCHANGED <<text1, text2, threshold, allPoints, allOverviews, allConclusions, prior>>

\* line 265: Promise.all has called the callback of every url of a request
\* that is neither answered with edited content nor from the cache; no
\* callback has returned yet
InitParallel ==
    /\ pc = "call" /\ fn = "POST"
    /\ args \in {[urls |-> q] : q \in UrlSeqs({UrlA, UrlB, UrlBad, UrlNone}, MaxUrls) \ {<<>>}}
    /\ env \in PostEnvs
    /\ localStorage = <<>> /\ now = Clock /\ calls = <<>> /\ client = Undefined /\ served = 1
    /\ settled = [i \in 1..Len(args.urls) |-> Null]
    /\ result = Undefined /\ thrown = FALSE /\ NoCore

\* how many callbacks have returned
Returns == Cardinality({i \in DOMAIN settled : settled[i] # Null})

\* as Settle, the values gathered in the order the callbacks return
SettlePushed(i) ==
    /\ pc = "call" /\ fn = "POST"
    /\ i \in DOMAIN settled
    /\ i \notin {settled[j].url : j \in {k \in DOMAIN settled : settled[k] # Null}}
    /\ settled' = [settled EXCEPT ![Returns + 1] =
                      [value |-> ProcessUrl(args.urls[i], Field(args, "language", "en"),
                                            Field(args, "outputSettings", Undefined),
                                            env, localStorage, now),
                       url |-> i, rank |-> Returns + 1]]
    /\ UNCHANGED <<pc, fn, result, thrown, args, env, localStorage, now, calls, client, served>>
    /\ UNCHANGED coreVars

\* lines 266-303: the callback of the i-th url returns, whichever callbacks
\* have returned before it; Promise.all keeps its value at index i
Settle(i) ==
    /\ pc = "call" /\ fn = "POST"
    /\ i \in DOMAIN settled /\ settled[i] = Null
    /\ settled' = [settled EXCEPT ![i] =
                      [value |-> ProcessUrl(args.urls[i], Field(args, "language", "en"),
                                            Field(args, "outputSettings", Undefined),
                                            env, localStorage, now),
                       url |-> i, rank |-> Returns + 1]]
    /\ UNCHANGED <<pc, fn, result, thrown, args, env, localStorage, now, calls, client, served>>
    /\ UNCHANGED coreVars

\* lines 307-379: every callback has returned and the response is made
Deliver ==
    /\ pc = "call" /\ fn = "POST"
    /\ settled # <<>> /\ \A i \in DOMAIN settled : settled[i] # Null
    /\ \E handled \in {Filtered(args, env, localStorage, now,
                                 [i \in DOMAIN settled |-> settled[i].value])} :
       \E successfulResults \in {SelectSeq(handled.videoResults, LAMBDA r : ~r.error)} :
           /\ result' = handled.response
           /\ localStorage' = handled.storage
           /\ calls' = handled.calls
           /\ summaries' = IF Len(successfulResults) > 1 THEN Summaries(successfulResults)
                           ELSE <<>>
           /\ titles' = IF Len(successfulResults) > 1 THEN Titles(successfulResults) ELSE <<>>
           /\ thrown' = FALSE
           /\ pc' = "done"
           /\ UNCHANGED <<fn, args, env, now, client, served, settled>>
           /\ UNCHANGED <<text1, text2, threshold, allPoints, allOverviews, allConclusions, prior>>

NextParallel == (\E i \in 1..MaxUrls : Settle(i)) \/ Deliver

SpecParallel == InitParallel /\ [][NextParallel]_vars

\* cache-service.ts used on its own: items of the three kinds stored and
\* looked up while time passes.  The clock passes the ages at which the
\* items expire: a day, a day and a millisecond, seven days, seven days and a
\* millisecond.
Day == 24 * Hour

ClockTimes == {0, Day, Day + 1, 7 * Day, 7 * Day + 1}

Questions == "What is it about?"

InitStore ==
    /\ pc = "done" /\ fn = "none"
    /\ args = Undefined /\ env \in {[BaseEnv EXCEPT !.hasStorage = has] : has \in BOOLEAN}
    /\ localStorage = <<>> /\ now = 0 /\ calls = <<>> /\ client = Undefined
    /\ served = 0 /\ settled = <<>>
    /\ result = Undefined /\ thrown = FALSE /\ NoCore

\* Date.now() grows
Tick ==
    /\ now' \in {t \in ClockTimes : t > now}
    /\ UNCHANGED <<pc, fn, result, thrown, args, env, localStorage, calls, client, served, settled>>
    /\ UNCHANGED coreVars

\* a store leaves the storage it makes and returns nothing
Stores(f, a, storage) ==
    /\ pc = "done"
    /\ fn' = f /\ args' = a /\ localStorage' = storage /\ result' = Undefined
    /\ UNCHANGED <<pc, thrown, env, now, calls, client, served, settled>>
    /\ UNCHANGED coreVars

\* a lookup returns the item or null and leaves the storage it makes; met is
\* the item it met under its key
Looks(f, a, key, got) ==
    /\ pc = "done"
    /\ fn' = f /\ args' = a /\ localStorage' = got.storage /\ result' = got.data
    /\ prior' = [called |-> TRUE,
                 met |-> IF key \in DOMAIN localStorage THEN localStorage[key] ELSE Null]
    /\ UNCHANGED <<pc, thrown, env, now, calls, client, served, settled>>
    /\ UNCHANGED <<text1, text2, summaries, threshold, titles,
                   allPoints, allOverviews, allConclusions>>

CacheVideoData ==
    Stores("cacheVideoData", [videoId |-> VideoA],
           cacheVideoData(localStorage, env.hasStorage, StoredVideo(VideoA, SnippetA, 0), now))

GetCachedVideoData ==
    Looks("getCachedVideoData", [videoId |-> VideoA], getVideoDataCacheKey(VideoA),
          getCachedVideoData(localStorage, env.hasStorage, VideoA, now))

CacheSummary ==
    \E given \in {Undefined, [summaryLength |-> "detailed"]} :
        Stores("cacheSummary", [urls |-> <<UrlA>>, language |-> "en"],
               cacheSummary(localStorage, env.hasStorage, <<UrlA>>, AnswerRust, "en", given, now))

GetCachedSummary ==
    Looks("getCachedSummary", [urls |-> <<UrlA>>, language |-> "en"],
          getSummaryCacheKey(<<UrlA>>, "en"),
          getCachedSummary(localStorage, env.hasStorage, <<UrlA>>, "en", now))

CacheAnalysis ==
    Stores("cacheAnalysis", [urls |-> <<UrlA>>, questions |-> Questions, language |-> "en"],
           cacheAnalysis(localStorage, env.hasStorage, <<UrlA>>, Questions, AnswerOwnership,
                         "en", Undefined, now))

GetCachedAnalysis ==
    Looks("getCachedAnalysis", [urls |-> <<UrlA>>, questions |-> Questions, language |-> "en"],
          getAnalysisCacheKey(<<UrlA>>, Questions, "en"),
          getCachedAnalysis(localStorage, env.hasStorage, <<UrlA>>, Questions, "en", now))

NextStore ==
    \/ Tick
    \/ CacheVideoData \/ GetCachedVideoData
    \/ CacheSummary \/ GetCachedSummary
    \/ CacheAnalysis \/ GetCachedAnalysis

SpecStore == InitStore /\ [][NextStore]_vars

\* the requests one server receives one after the other: the same urls in
\* either order, with other output settings, past the cache
MaxRequests == 3        \* requests received by one server

CacheBodies ==
    UNION {{[urls |-> q],
            [urls |-> q, outputSettings |-> [summaryLength |-> "detailed"]],
            [urls |-> q, skipCache |-> TRUE]} :
           q \in {<<UrlA>>, <<UrlA, UrlB>>, <<UrlB, UrlA>>}}

\* a server whose models find the two videos related, one whose models do
\* not, one without localStorage
CacheEnvs ==
    {[BaseEnv EXCEPT !.answers = table] : table \in AnswerTables}
    \cup {[BaseEnv EXCEPT !.hasStorage = FALSE]}

\* the server has started: nothing stored, no request received
InitCache ==
    /\ pc = "done" /\ fn = "none"
    /\ args = Undefined /\ env \in CacheEnvs
    /\ localStorage = <<>> /\ now = Clock /\ calls = <<>> /\ client = Undefined
    /\ served = 0 /\ settled = <<>>
    /\ result = Undefined /\ thrown = FALSE /\ NoCore

\* a request arrives, an hour or more than a day after the one before
Request ==
    /\ pc = "done" /\ served < MaxRequests
    /\ args' \in CacheBodies
    /\ now' \in {now + Hour, now + 25 * Hour}
    /\ served' = served + 1
    /\ fn' = "POST" /\ pc' = "call"
    /\ result' = Undefined /\ thrown' = FALSE /\ calls' = <<>>
    /\ UNCHANGED <<env, localStorage, client, settled>>
    /\ UNCHANGED coreVars

NextCache == Request \/ Post

\* the YouTubeSummarizer component on its summarize tab (lines 36-66: the
\* state it starts with); lineSpacing 1.5 is written as a string
outputSettings ==
    [format |-> "markdown", fontFamily |-> "Times-Roman", fontSize |-> 12,
     lineSpacing |-> "1.5", minPages |-> 3, maxPages |-> 6, includeReferences |-> TRUE,
     formalTone |-> TRUE, summaryStyle |-> "academic", language |-> "en"]

ClientUrls == {<<UrlA>>, <<UrlA, UrlB>>, <<UrlBad, UrlB>>, <<UrlNone>>}

InitClient ==
    /\ pc = "done" /\ fn = "none"
    /\ client = [urls |-> <<"">>, summary |-> "", editedContent |-> "", feedback |-> "",
                 editMode |-> FALSE, error |-> ""]
    /\ args = Undefined /\ env \in PostEnvs
    /\ localStorage = <<>> /\ now = Clock /\ calls = <<>> /\ served = 0 /\ settled = <<>>
    /\ result = Undefined /\ thrown = FALSE /\ NoCore

\* lines 78-92: the user types the urls of the videos into the inputs, or
\* other urls in place of those typed before
SetUrls ==
    /\ pc = "done"
    /\ \E urls \in ClientUrls \ {client.urls} : client' = [client EXCEPT !.urls = urls]
    /\ fn' = "setUrls"
    /\ UNCHANGED <<pc, result, thrown, args, env, localStorage, now, calls, served, settled>>
    /\ UNCHANGED coreVars

\* JSON.stringify leaves out the properties that are undefined
RequestBody(validUrls, feedback, editedContent) ==
    LET sent == [urls |-> validUrls, outputSettings |-> outputSettings,
                 transcriptLanguages |-> <<>>,
                 feedback |-> feedback, editedContent |-> editedContent]
        kept == {f \in DOMAIN sent : ~(f \in {"feedback", "editedContent"} /\ sent[f] = "")}
    IN  [f \in kept |-> sent[f]]

\* lines 101-193: the button Summarize Videos / Regenerate with Feedback,
\* with the request it sends and the response of POST
HandleSummarize ==
    /\ pc = "done"
    /\ \E validUrls \in {SelectSeq(client.urls, LAMBDA url : extractVideoId(url) # Null)} :
          IF Len(validUrls) = 0
          THEN /\ client' = [client EXCEPT
                                 !.error = "Please enter at least one valid YouTube URL"]
               /\ UNCHANGED <<args, result, localStorage, calls>>
          ELSE \E body \in {RequestBody(validUrls, client.feedback, client.editedContent)} :
               \E handled \in {Handle(body, env, localStorage, now)} :
                   /\ args' = body
                   /\ result' = handled.response
                   /\ localStorage' = handled.storage
                   /\ calls' = handled.calls
                   /\ client' = [client EXCEPT
                         !.error = "", !.editMode = FALSE,
                         !.summary = handled.response.summary,
                         !.editedContent = IF "isEdited" \in DOMAIN handled.response
                                           THEN @ ELSE "",
                         !.feedback = IF "isEdited" \in DOMAIN handled.response
                                      THEN @ ELSE ""]
    /\ fn' = "handleSummarize"
    /\ UNCHANGED <<pc, thrown, env, now, served, settled>>
    /\ UNCHANGED coreVars

\* lines 363-370, from the button of the summary card (lines 473, 486)
ToggleEditMode ==
    /\ pc = "done" /\ client.summary # "" /\ ~client.editMode
    /\ client' = [client EXCEPT !.editMode = TRUE, !.editedContent = client.summary]
    /\ fn' = "toggleEditMode"
    /\ UNCHANGED <<pc, result, thrown, args, env, localStorage, now, calls, served, settled>>
    /\ UNCHANGED coreVars

\* lines 345-361, from the Save button of the editor (lines 582-590): the
\* content as it stands or rewritten, with or without feedback
HandleSaveEdits ==
    /\ pc = "done" /\ client.summary # "" /\ client.editMode
    /\ \E newContent \in {client.summary, "My own words"},
          newFeedback \in {"", "Make it shorter"} :
           client' = [client EXCEPT !.editedContent = newContent, !.feedback = newFeedback,
                                    !.summary = newContent]
    /\ fn' = "handleSaveEdits"
    /\ UNCHANGED <<pc, result, thrown, args, env, localStorage, now, calls, served, settled>>
    /\ UNCHANGED coreVars

NextClient == SetUrls \/ HandleSummarize \/ ToggleEditMode \/ HandleSaveEdits

\* texts given to extractKeywords: words in capitals, with punctuation, an
\* underscore, digits or accented letters, stop-words and short words
MaxKeywordParts == 2    \* parts of one text given to extractKeywords

KeywordParts ==
    {"The ", "Dogs, ", "ox ", "snake_case ", "café ", "año\n", "42nd ", "e-mail "}

\* extractKeywords(text) has been entered (lines 8 and 12 of
\* content-analyzer.ts call it so)
InitKeywords ==
    /\ pc = "call" /\ fn = "extractKeywords"
    /\ text1 \in TextsOver(KeywordParts, MaxKeywordParts) /\ text2 = ""
    /\ summaries = <<>> /\ threshold = Undefined /\ titles = <<>>
    /\ NoLocals /\ result = Undefined /\ thrown = FALSE /\ prior = NoCall
    /\ NoService

ExtractKeywords ==
    /\ pc = "call" /\ fn = "extractKeywords"
    /\ result' = extractKeywords(text1)
    /\ thrown' = FALSE
    /\ pc' = "done"
    /\ UNCHANGED <<fn, text1, text2, summaries, threshold, titles,
                   allPoints, allOverviews, allConclusions, prior>>
    /\ UNCHANGED serviceVars

\* summaries written the way the models write them: an overview, bullets, a
\* conclusion, with fragments of equal length and bullets that start alike
MaxSectionDocs == 3     \* summaries of one batch merged in SpecSections

SectionDocs ==
    {"Intro text here\n\n* Uses blockchain for security\n* Runs on solar power\n\nFirst closing words",
     "Outro text here\n\n* Uses Blockchain\n* Is cheap\n\nOther closing words",
     "A longer overview of it all\n\n* Uses blockchain for security in every single node\n\nA longer conclusion of it all",
     "* Is\n* Is cheap to run",
     "Short\n\n* Is fast",
     ""}

RECURSIVE SeqsOver(_, _)
SeqsOver(S, n) ==
    IF n = 0 THEN {<<>>}
    ELSE LET shorter == SeqsOver(S, n - 1)
         IN  shorter \cup {Append(q, x) : q \in shorter, x \in S}

\* mergeSummaries(summaries, titles) has been entered with such summaries
InitSections ==
    /\ pc = "call" /\ fn = "mergeSummaries"
    /\ summaries \in SeqsOver(SectionDocs, MaxSectionDocs)
    /\ titles = TitleSeq(Len(summaries))
    /\ text1 = "" /\ text2 = "" /\ threshold = Undefined
    /\ NoLocals /\ result = Undefined /\ thrown = FALSE /\ prior = NoCall
    /\ NoService

InitServices == InitFetch \/ InitGemini \/ InitPost

NextServices == FetchVideoData \/ SummarizeWithGemini \/ Post

Spec == Init /\ [][Next]_vars
SpecRepeat == InitRepeat /\ [][NextRepeat]_vars
SpecServices == InitServices /\ [][NextServices]_vars
SpecCache == InitCache /\ [][NextCache]_vars
SpecClient == InitClient /\ [][NextClient]_vars
SpecKeywords == InitKeywords /\ [][ExtractKeywords]_vars
SpecSections == InitSections /\ [][MergeSummaries]_vars

-----------------------------------------------------------------------------
(* Properties of calculateSimilarity (checked under Spec)                  *)

Returned(f) == pc = "done" /\ fn = f

KeywordSet(text) == {extractKeywords(text)[i] : i \in 1..Len(extractKeywords(text))}
HasRepeatedKeyword(text) == Cardinality(KeywordSet(text)) < Len(extractKeywords(text))

\* C1: calculateSimilarity is symmetric: the value returned for (text1, text2)
\* is the value of calculateSimilarity(text2, text1).
SimilaritySymmetric ==
    Returned("calculateSimilarity") => result = calculateSimilarity(text2, text1)

\* two texts with different numbers of keywords and a score strictly
\* between 0 and 1
SimilaritySymmetricWitness ==
    /\ Returned("calculateSimilarity")
    /\ Cardinality(KeywordSet(text1)) # Cardinality(KeywordSet(text2))
    /\ result # Zero /\ result # One

SimilarityIdentity ==
    (Returned("calculateSimilarity") /\ text1 = text2 /\ KeywordSet(text1) # {})
        => result = One

\* a text compared with itself, in which a keyword occurs twice
SimilarityIdentityWitness ==
    /\ Returned("calculateSimilarity")
    /\ text1 = text2 /\ HasRepeatedKeyword(text1)

-----------------------------------------------------------------------------
(* Properties of areRelated (checked under Spec)                           *)

\* the threshold in force: 0.15 when the argument is omitted
ThresholdInForce == IF threshold = Undefined THEN Fraction(3, 20) ELSE threshold

SomePairAtLeast(docs, t) ==
    \E i \in 1..Len(docs) : \E j \in (i + 1)..Len(docs) :
        Geq(calculateSimilarity(docs[i], docs[j]), t)

\* C4: for a batch of at least two summaries, areRelated is true iff some
\* pair i < j has a similarity at or above the threshold, the threshold being
\* 0.15 when none is given.
RelatedIffSomePair ==
    (Returned("areRelated") /\ Len(summaries) >= 2)
        => (result <=> SomePairAtLeast(summaries, ThresholdInForce))

\* three summaries and no threshold given: the first summary shares nothing
\* with the others, and the last pair scores 1/6, just above 0.15
RelatedIffSomePairWitness ==
    /\ Returned("areRelated") /\ Len(summaries) = 3 /\ threshold = Undefined
    /\ result = TRUE
    /\ calculateSimilarity(summaries[1], summaries[2]) = Zero
    /\ calculateSimilarity(summaries[1], summaries[3]) = Zero
    /\ calculateSimilarity(summaries[2], summaries[3]) = Fraction(1, 6)

\* C5: areRelated is false for every batch of zero or one summary, whatever
\* the summary and the threshold.
SingleNeverRelated ==
    (Returned("areRelated") /\ Len(summaries) <= 1) => result = FALSE

\* one summary with keywords and the threshold 0, which every pair would meet
SingleNeverRelatedWitness ==
    /\ Returned("areRelated") /\ Len(summaries) = 1
    /\ KeywordSet(summaries[1]) # {} /\ threshold = Zero

\* C6: areRelated is monotone in the threshold: when it is true for the
\* threshold given, it is true for every smaller threshold.
RelatedMonotone ==
    (Returned("areRelated") /\ result = TRUE) =>
        \A t2 \in Thresholds \ {Undefined} :
            (Geq(ThresholdInForce, t2) /\ t2 # ThresholdInForce)
                => areRelated(summaries, t2) = TRUE

\* related at a threshold above 0, with a smaller threshold to compare with
RelatedMonotoneWitness ==
    /\ Returned("areRelated") /\ result = TRUE /\ threshold = Fraction(1, 2)
    /\ ~SomePairAtLeast(summaries, One)

\* the batch docs rearranged by the permutation p of its indices
Permuted(docs, p) == [i \in 1..Len(docs) |-> docs[p[i]]]
IndexPermutations(n) == {p \in [1..n -> 1..n] : \A i, j \in 1..n : p[i] = p[j] => i = j}

\* C7: the result of areRelated does not depend on the order of the
\* summaries: every permutation of the batch gives the same boolean.
RelatedOrderIndependent ==
    Returned("areRelated") =>
        \A p \in IndexPermutations(Len(summaries)) :
            areRelated(Permuted(summaries, p), threshold) = result

\* three different summaries of which exactly one pair is related
RelatedOrderIndependentWitness ==
    /\ Returned("areRelated") /\ Len(summaries) = 3 /\ result = TRUE
    /\ Cardinality({<<i, j>> \in (1..3) \X (1..3) :
                       i < j /\ Geq(calculateSimilarity(summaries[i], summaries[j]),
                                    ThresholdInForce)}) = 1

-----------------------------------------------------------------------------
(* Properties of mergeSummaries (checked under Spec and SpecRepeat)        *)

\* where t first occurs in s at or after from, 0 if nowhere
IndexFrom(s, t, from) ==
    LET hits == {i \in from..(Len(s) - Len(t) + 1) : SubSeq(s, i, i + Len(t) - 1) = t}
    IN  IF hits = {} THEN 0 ELSE Min(hits)

\* the texts ts occur in s one after the other, without overlap
RECURSIVE OccurInOrderFrom(_, _, _)
OccurInOrderFrom(s, ts, from) ==
    IF ts = <<>> THEN TRUE
    ELSE LET i == IndexFrom(s, Head(ts), from)
         IN  i # 0 /\ OccurInOrderFrom(s, Tail(ts), i + Len(Head(ts)))

\* how many times t occurs in s
Occurrences(s, t) ==
    Cardinality({i \in 1..(Len(s) - Len(t) + 1) : SubSeq(s, i, i + Len(t) - 1) = t})

\* C8: for every input the output holds the five headers in the order title,
\* Videos Analyzed, Overview, Key Points From All Videos, Overall Conclusion,
\* and the generic sentence directly under Overview when no overview fragment
\* was collected.
MergeStructure ==
    Returned("mergeSummaries") =>
        /\ OccurInOrderFrom(result,
               <<"Combined Summary of Related Videos", "Videos Analyzed", "Overview",
                 "Key Points From All Videos", "Overall Conclusion">>, 1)
        /\ allOverviews = <<>> =>
               Includes(result, "## Overview\n\nThese videos discuss related topics.\n")

\* a batch of summaries from which nothing at all is extracted
MergeStructureWitness ==
    /\ Returned("mergeSummaries") /\ Len(summaries) >= 1
    /\ allOverviews = <<>> /\ allPoints = <<>> /\ allConclusions = <<>>

\* the summary has the line Bullet among its bullet lines
HasBulletLine(summary) ==
    \E k \in 1..Len(bulletPoints(summary)) : Trim(bulletPoints(summary)[k]) = Bullet

\* C9: when two summaries each contain the bullet line "* Uses blockchain
\* for security", the text of that bullet occurs exactly once in the output,
\* whatever surrounds the bullet in the summaries.
BulletOnceInOutput ==
    (Returned("mergeSummaries")
        /\ Cardinality({i \in 1..Len(summaries) : HasBulletLine(summaries[i])}) >= 2)
        => Occurrences(result, Bullet) = 1

\* C10: mergeSummaries is deterministic: a call with the summaries and
\* titles of an earlier call returns the string the earlier call returned,
\* whatever was called in between.
MergeDeterministic ==
    (Returned("mergeSummaries") /\ prior.called
        /\ prior.summaries = summaries /\ prior.titles = titles)
        => result = prior.result

\* the same non-empty batch merged again after calls of all three functions
MergeDeterministicWitness ==
    /\ Returned("mergeSummaries") /\ prior.called
    /\ prior.summaries = summaries /\ prior.titles = titles
    /\ allPoints # <<>>
    /\ prior.between = {"calculateSimilarity", "areRelated", "mergeSummaries"}

-----------------------------------------------------------------------------
(* Error handling of the three functions                                   *)

\* C11: calculateSimilarity, areRelated and mergeSummaries end by returning
\* a value of their return type, never by a TypeError, whatever strings they
\* are given: empty ones, summaries without blank line or bullet, and
\* summaries and titles of different lengths included.
NeverThrows ==
    (pc = "done" /\ fn # "none") =>
        /\ ~thrown
        /\ fn = "calculateSimilarity" => result.num \in 0..result.den /\ result.den > 0
        /\ fn = "areRelated" => result \in BOOLEAN
        /\ fn = "mergeSummaries" => Len(result) > 0

\* mergeSummaries has returned for an empty summary and one without blank
\* line or bullet, with fewer titles than summaries
NeverThrowsWitness ==
    /\ Returned("mergeSummaries")
    /\ Len(summaries) = 2 /\ Len(titles) = 1
    /\ summaries[1] = ""
    /\ summaries[2] # "" /\ bulletPoints(summaries[2]) = <<>>
    /\ ~Includes(summaries[2], "\n\n")

\* C12: called with summaries and titles of different lengths, mergeSummaries
\* either fails or returns what it returns for the first
\* min(len(summaries), len(titles)) entries of both.
MismatchTruncatesOrFails ==
    (Returned("mergeSummaries") /\ Len(summaries) # Len(titles)) =>
        \/ thrown
        \/ LET n == Min({Len(summaries), Len(titles)})
           IN  result = mergeSummaries(Take(summaries, n), Take(titles, n))

-----------------------------------------------------------------------------
(* Properties of the summarize handler and its services (SpecServices)     *)

\* the POST call returns a freshly computed response
Computes ==
    /\ pc = "call" /\ fn = "POST" /\ pc' = "done"
    /\ result'.status = 200
    /\ "fromCache" \notin DOMAIN result' /\ "isEdited" \notin DOMAIN result'

\* the results of the urls of the request being handled, by kind
Kinds ==
    LET videoResults == VideoResults(args, env, localStorage, now)
    IN  {[successful |-> SelectSeq(videoResults, LAMBDA r : ~r.error),
          failed |-> SelectSeq(videoResults, LAMBDA r : r.error)]}

\* C13: when the handler computes a response, with two successful summaries
\* or more that areRelated finds related the deliverable is mergeSummaries
\* of exactly these summaries and their titles (before any Errors section);
\* otherwise no merged document is made and every successful summary
\* stands under its own heading.
MergedIffRelated ==
    [][Computes =>
        \A k \in Kinds : \A merged \in {mergeSummaries(Summaries(k.successful),
                                                        Titles(k.successful))} :
            IF Len(k.successful) >= 2 /\ areRelated(Summaries(k.successful), Undefined)
            THEN /\ StartsWith(result'.summary, merged)
                 /\ k.failed = <<>> => result'.summary = merged
            ELSE /\ ~Includes(result'.summary, "# Combined Summary of Related Videos")
                 /\ \A i \in 1..Len(k.successful) :
                        OccurInOrderFrom(result'.summary,
                            <<"## Summary for [" \o k.successful[i].title \o "]("
                                  \o k.successful[i].url \o ")\n\n",
                              k.successful[i].summary \o "\n\n">>, 1)]_vars

\* two videos summarized, found related and merged
MergedIffRelatedWitness ==
    /\ Returned("POST") /\ result.status = 200 /\ "fromCache" \notin DOMAIN result
    /\ Len(summaries) = 2 /\ result.areVideosRelated
    /\ Len(args.urls) = 2 /\ result.errorCount = 0
    /\ StartsWith(result.summary, "# Combined Summary of Related Videos")

\* the text of s from position from on
From(s, from) == SubSeq(s, from, Len(s))

\* C14: in a freshly computed response the Errors section is there exactly
\* when some url failed; nothing but the messages follows its header, no
\* other section, and the messages of the failed urls stand there in the
\* order of the urls.
ErrorsSectionLast ==
    [][Computes =>
        \A k \in Kinds :
            /\ result'.errorCount = Len(k.failed)
            /\ Includes(result'.summary, "## Errors") <=> Len(k.failed) > 0
            /\ Len(k.failed) > 0 =>
                  LET header == IndexFrom(result'.summary, "\n## Errors\n\n", 1)
                      listed == From(result'.summary, header + Len("\n## Errors\n\n"))
                  IN  /\ header # 0
                      /\ ~Includes(listed, "## ")
                      /\ OccurInOrderFrom(listed,
                             [i \in 1..Len(k.failed) |-> k.failed[i].message \o "\n\n"], 1)
                      /\ Len(listed) = Len(Messages(k.failed))]_vars

\* two summaries merged and the failed second url reported after them
ErrorsSectionLastWitness ==
    /\ Returned("POST") /\ result.status = 200 /\ "fromCache" \notin DOMAIN result
    /\ result.errorCount = 1 /\ result.videoCount = 2 /\ result.areVideosRelated
    /\ extractVideoId(args.urls[2]) = Null
    /\ OccurInOrderFrom(result.summary,
           <<"# Combined Summary of Related Videos", "## Overall Conclusion",
             "\n## Errors\n\n", args.urls[2]>>, 1)

\* the handler without the cache: no operation of cache-service.ts finds
\* or stores anything
WithoutCache == [env EXCEPT !.hasStorage = FALSE]

\* C15: a summary served from the cache is the summary the handler would
\* compute for the same request (urls in the given order, language, output
\* settings) without the cache
CacheIsTransparent ==
    [][(pc = "call" /\ fn = "POST" /\ "fromCache" \in DOMAIN result')
          => result'.summary
               = Handle(args, WithoutCache, localStorage, now).response.summary]_vars

\* the call being made finds no fresh item of its video in the storage
NothingCached ==
    \/ ~env.hasStorage
    \/ "youtube_video_data_" \o args.videoId \notin DOMAIN localStorage
    \/ now - localStorage["youtube_video_data_" \o args.videoId].timestamp
         > 7 * 24 * 60 * 60 * 1000

\* the call being made cannot retrieve the metadata of its video
MetadataFails ==
    \/ ~env.YOUTUBE_API_KEY
    \/ env.video[args.videoId].status \in {"error", "notOk", "empty", "noSnippet"}

\* the call being made is answered no transcript
TranscriptFails ==
    env.transcript[args.videoId].status \in {"error", "notOk", "apiError", "disabled"}

\* C16: fetchVideoData never throws: whatever the services answer it
\* returns a payload with a title, a channel label and a body text; the
\* payload is that of createFallbackVideoData when the metadata could not be
\* retrieved, and carries the video's own title over a placeholder body
\* when only the transcript could not be fetched
FetchNeverThrows ==
    [][(pc = "call" /\ fn = "fetchVideoData") =>
          /\ ~thrown'
          /\ {"title", "channelTitle", "transcript", "url"} \subseteq DOMAIN result'
          /\ (NothingCached /\ MetadataFails) =>
                result' = [transcript |-> "Unable to fetch transcript for video ID: "
                                             \o args.videoId \o ". Using fallback data.",
                           title |-> "YouTube Video (ID: " \o args.videoId \o ")",
                           channelTitle |-> "Unknown Channel",
                           url |-> IF args.originalUrl # "" THEN args.originalUrl
                                   ELSE "https://www.youtube.com/watch?v=" \o args.videoId,
                           fallback |-> TRUE]
          /\ (NothingCached /\ ~MetadataFails /\ TranscriptFails) =>
                /\ result'.title = env.video[args.videoId].title
                /\ result'.channelTitle = env.video[args.videoId].channelTitle
                /\ Includes(result'.transcript, "(No transcript available for this video.")
                /\ result'.fallback]_vars

\* the provider answered 403 with the key set and nothing cached: the
\* fallback payload was returned
FetchNeverThrowsWitness ==
    /\ Returned("fetchVideoData") /\ ~thrown
    /\ env.YOUTUBE_API_KEY /\ env.video[args.videoId].status = "notOk"
    /\ localStorage = <<>>
    /\ result = createFallbackVideoData(args.videoId, args.originalUrl)
    /\ result.title = "YouTube Video (ID: AAAAAAAAAAA)"

\* the order in which the claim names the models
ClaimedOrder == <<"gemini-2.0-flash-lite", "gemini-1.5-pro", "gemini-1.0-pro", "gemini-pro">>

\* C17: summarizeWithGemini calls the models in the order
\* gemini-2.0-flash-lite, gemini-1.5-pro, gemini-1.0-pro, gemini-pro, each
\* only after those before it failed, returns the text of the first that
\* answers, and returns generateBasicSummary(text, videoTitle) when the key
\* is missing or all four failed; it never throws
ModelsTriedInOrder ==
    Returned("summarizeWithGemini") =>
        /\ ~thrown
        /\ ~env.GEMINI_API_KEY =>
              /\ calls = <<>>
              /\ result = generateBasicSummary(args.text, args.videoTitle)
        /\ env.GEMINI_API_KEY =>
              /\ Len(calls) \in 1..4
              /\ \A i \in 1..Len(calls) :
                    /\ calls[i].model = ClaimedOrder[i]
                    /\ calls[i].prompt.text = args.text
                    /\ i < Len(calls) => ClaimedOrder[i] \in env.fails
              /\ ClaimedOrder[Len(calls)] \notin env.fails =>
                    result = (IF args.videoTitle \in DOMAIN env.answers
                              THEN env.answers[args.videoTitle] ELSE env.answers["*"])
              /\ ClaimedOrder[Len(calls)] \in env.fails =>
                    /\ Len(calls) = 4
                    /\ result = generateBasicSummary(args.text, args.videoTitle)

\* the first two models failed and the third answered
ModelsTriedInOrderWitness ==
    /\ Returned("summarizeWithGemini") /\ env.GEMINI_API_KEY
    /\ env.fails = {"gemini-2.0-flash-lite", "gemini-1.5-pro", "gemini-pro"}
    /\ Len(calls) = 3 /\ calls[3].model = "gemini-1.0-pro"
    /\ result = AnswerRust

\* edits saved together with feedback are waiting for the regeneration
SavedWithFeedback == client.editedContent # "" /\ client.feedback # ""

\* C18: when edits were saved together with feedback and the user then
\* regenerates, a model is called with that feedback in its prompt and the
\* summary shown afterwards is the text the model generated
FeedbackIsIncorporated ==
    [][(SavedWithFeedback /\ fn' = "handleSummarize" /\ client'.error = "") =>
          /\ \E i \in 1..Len(calls') :
                \E part \in DOMAIN calls'[i].prompt :
                    Includes(calls'[i].prompt[part], client.feedback)
          /\ "isEdited" \notin DOMAIN result'
          /\ client'.summary # client.editedContent]_vars

\* the letters of the texts (after lowercasing), the accented ones included
Letters == CharsOf(LowerCase) \cup CharsOf("àáâãäåæçèéêëìíîïñòóôõöøùúûüýÿ")

KeepLetterDigitOrSpace(c) ==
    IF c \in Letters \cup CharsOf(Digits) \cup WhiteSpace THEN c ELSE ""

\* the algorithm as the specification words it: lowercase, keep letters,
\* digits and whitespace, split on runs of whitespace, drop the tokens of
\* length at most 2 and the stop-words
KeywordsAsWorded(text) ==
    SelectSeq(SplitWhiteSpace(MapChars(KeepLetterDigitOrSpace, toLowerCase(text))),
              LAMBDA word : Len(word) > 2 /\ word \notin stopWords)

\* C19: extractKeywords returns exactly the tokens left after lowercasing,
\* removing every character that is not a letter, digit or whitespace,
\* splitting on runs of whitespace and dropping tokens of length at most 2
\* and stop-words, in their order of occurrence
KeywordsExactlyAsWorded ==
    Returned("extractKeywords") => result = KeywordsAsWorded(text1)

LetterCount(word) == Cardinality({i \in 1..Len(word) : Char(word, i) \in Letters})

\* C20: a text with a word of three or more letters that is not a
\* stop-word, in whatever language, yields a non-empty token set
ContentWordYieldsToken ==
    (/\ Returned("extractKeywords")
     /\ \E i \in 1..Len(KeywordsAsWorded(text1)) :
           LetterCount(KeywordsAsWorded(text1)[i]) >= 3)
        => result # <<>>

-----------------------------------------------------------------------------
(* The fragments mergeSummaries collects and the sections it builds        *)

\* the text of a summary from its start up to the first blank line or its end
FirstParagraph(summary) == Split(summary, "\n\n")[1]

\* C21: the overview fragments collected are the first paragraphs of the
\* summaries, one line or several, in the order of the summaries; only a
\* summary whose first paragraph is empty contributes none
OverviewsAreFirstParagraphs ==
    (Returned("mergeSummaries") /\ ~thrown) =>
        allOverviews = SelectSeq([i \in 1..Len(summaries) |-> FirstParagraph(summaries[i])],
                                 LAMBDA para : para # "")

\* the lines of the summaries that begin with the bullet marker, in order
RECURSIVE BulletLines(_)
BulletLines(docs) ==
    IF docs = <<>> THEN <<>>
    ELSE SelectSeq(Split(Head(docs), "\n"), LAMBDA line : StartsWith(line, "* "))
             \o BulletLines(Tail(docs))

\* C22: the bullets collected are exactly the lines of the summaries that
\* begin with "* ", marker included, in document order, the summaries taken
\* in input order; "* " in the middle of a line starts no bullet
BulletsAreBulletLines ==
    (Returned("mergeSummaries") /\ ~thrown) => allPoints = BulletLines(summaries)

\* a paragraph a conclusion may be taken from: beyond leading white space it
\* does not start with the bullet marker, and it has more than 10 characters
Qualifies(para) ==
    /\ \A i \in 1..Len(para) :
          (\A j \in 1..(i - 1) : Char(para, j) \in WhiteSpace) => Char(para, i) # "*"
    /\ Len(para) > 10

\* the conclusion fragment of one summary as the specification words it
ExpectedConclusion(summary) ==
    LET paras == Split(summary, "\n\n")
        n == Len(paras)
    IN  IF n >= 2 /\ Qualifies(paras[n - 1]) THEN <<paras[n - 1]>>
        ELSE IF Qualifies(paras[n]) THEN <<paras[n]>>
        ELSE <<>>

RECURSIVE ExpectedConclusions(_)
ExpectedConclusions(docs) ==
    IF docs = <<>> THEN <<>>
    ELSE ExpectedConclusion(Head(docs)) \o ExpectedConclusions(Tail(docs))

Between(s, header, after) ==
    LET start == IndexFrom(s, header, 1) + Len(header)
    IN  SubSeq(s, start, IndexFrom(s, after, start) - 1)

\* the longest of the fragments, the one collected first among equals
FirstLongest(fragments) ==
    LET i == CHOOSE k \in 1..Len(fragments) :
                 /\ \A j \in 1..Len(fragments) : Len(fragments[j]) <= Len(fragments[k])
                 /\ \A j \in 1..(k - 1) : Len(fragments[j]) < Len(fragments[k])
    IN  fragments[i]

\* C24: the Overview section of the merged document holds the longest
\* collected overview fragment, the first collected among the longest, and
\* the Overall Conclusion section the conclusion fragment chosen by the same
\* rule; a section holds its generic sentence exactly when no fragment of its
\* kind was collected.
SectionsHoldFirstLongest ==
    (Returned("mergeSummaries") /\ ~thrown) =>
        LET overview == Between(result, OverviewHeader, KeyPointsHeader)
            conclusion == From(result, IndexFrom(result, ConclusionHeader, 1)
                                           + Len(ConclusionHeader))
        IN  /\ allOverviews # <<>> => overview = FirstLongest(allOverviews) \o "\n\n"
            /\ allConclusions # <<>> => conclusion = FirstLongest(allConclusions) \o "\n"
            /\ (overview = OverviewFallback) <=> (allOverviews = <<>>)
            /\ (conclusion = ConclusionFallback) <=> (allConclusions = <<>>)

\* two different longest conclusions and two different longest overviews met
SectionsHoldFirstLongestWitness ==
    /\ Returned("mergeSummaries") /\ ~thrown
    /\ \E i, j \in 1..Len(allConclusions) :
           /\ i < j /\ allConclusions[i] # allConclusions[j]
           /\ Len(allConclusions[i]) = Len(allConclusions[j])
           /\ \A k \in 1..Len(allConclusions) :
                  Len(allConclusions[k]) <= Len(allConclusions[i])
    /\ \E i, j \in 1..Len(allOverviews) :
           /\ i < j /\ allOverviews[i] # allOverviews[j]
           /\ Len(allOverviews[i]) = Len(allOverviews[j])
           /\ \A k \in 1..Len(allOverviews) :
                  Len(allOverviews[k]) <= Len(allOverviews[i])

\* the text of point before its fifth space, in lower case
FiveWords(point) ==
    LET spaces == {i \in 1..Len(point) : Char(point, i) = " "}
        later == {i \in spaces : Cardinality({j \in spaces : j < i}) >= 4}
    IN  toLowerCase(IF later = {} THEN point ELSE SubSeq(point, 1, Min(later) - 1))

\* the prefix of one of the two points contains the prefix of the other
Clash(p, q) ==
    Includes(FiveWords(p), FiveWords(q)) \/ Includes(FiveWords(q), FiveWords(p))

\* the positions of the points the greedy filter accepts: a point is left
\* out if and only if it clashes with a point accepted before it
Accepted(points) ==
    CHOOSE A \in SUBSET (1..Len(points)) :
        \A i \in 1..Len(points) :
            (i \in A) <=> ~\E j \in A : j < i /\ Clash(points[i], points[j])

\* the lines of the Key Points section of a merged document
KeyPointLines(doc) ==
    LET lines == Split(Between(doc, KeyPointsHeader, ConclusionHeader), "\n")
    IN  SubSeq(lines, 1, Len(lines) - 1)

\* C25: the Key Points section holds, one per line and with their markers,
\* the collected bullets the greedy filter accepts, in the order they were
\* collected: a bullet is left out if and only if its lowercased
\* first-five-words prefix contains, or is contained in, the prefix of a
\* bullet accepted before it.
KeyPointsAreGreedyFilter ==
    (Returned("mergeSummaries") /\ ~thrown) =>
        LET lines == KeyPointLines(result)
            positions == Accepted(allPoints)
        IN  /\ Len(lines) = Cardinality(positions)
            /\ \A n \in 1..Len(lines) :
                   \E i \in positions :
                       /\ Cardinality({j \in positions : j <= i}) = n
                       /\ lines[n] = allPoints[i]

\* bullets were left out for either reason, and a bullet that clashes only
\* with a bullet left out before it was accepted
KeyPointsAreGreedyFilterWitness ==
    /\ Returned("mergeSummaries") /\ ~thrown
    /\ LET positions == Accepted(allPoints)
           out == (1..Len(allPoints)) \ positions
       IN  /\ \E i \in out, j \in positions :
                  /\ j < i /\ FiveWords(allPoints[i]) # FiveWords(allPoints[j])
                  /\ Includes(FiveWords(allPoints[i]), FiveWords(allPoints[j]))
           /\ \E i \in out, j \in positions :
                  /\ j < i /\ FiveWords(allPoints[i]) # FiveWords(allPoints[j])
                  /\ Includes(FiveWords(allPoints[j]), FiveWords(allPoints[i]))
           /\ \E i \in positions, j \in out :
                  j < i /\ Clash(allPoints[i], allPoints[j])
           /\ result = mergeSummaries(summaries, titles)

\* C28: in every output of mergeSummaries no two emitted key points have
\* lowercased first-five-words prefixes of which one contains the other, and
\* the first collected bullet, if there is one, is emitted.
EmittedPointsDoNotClash ==
    (Returned("mergeSummaries") /\ ~thrown) =>
        LET lines == KeyPointLines(result)
        IN  /\ \A m, n \in 1..Len(lines) : m # n => ~Clash(lines[m], lines[n])
            /\ allPoints # <<>> => \E n \in 1..Len(lines) : lines[n] = allPoints[1]

\* three key points emitted, from more bullets than that
EmittedPointsDoNotClashWitness ==
    /\ Returned("mergeSummaries") /\ ~thrown
    /\ Len(KeyPointLines(result)) >= 3
    /\ Len(allPoints) > Len(KeyPointLines(result))
    /\ KeyPointLines(result)[1] = allPoints[1]

(***************************************************************************)
(* The callbacks of Promise.all returning in any order (SpecParallel)      *)

Heading(r) == "## Summary for [" \o r.title \o "](" \o r.url \o ")\n\n"

\* heading and summary of each result, a horizontal rule before the next
RECURSIVE RuledPieces(_)
RuledPieces(results) ==
    IF results = <<>> THEN <<>>
    ELSE <<Heading(Head(results)), Head(results).summary>>
             \o (IF Len(results) > 1 THEN <<"\n\n---\n\n">> ELSE <<>>)
             \o RuledPieces(Tail(results))

\* C26: when the handler computes a response without merging, the summaries
\* of the urls that succeeded stand in the deliverable in the order of the
\* urls of the request, each under its own heading and with a horizontal
\* rule between one and the next, in whichever order the callbacks of the
\* urls have returned.
UrlOrderKept ==
    [][Computes =>
        \A k \in Kinds :
            ~result'.areVideosRelated =>
                /\ Occurrences(result'.summary, "## Summary for [") = Len(k.successful)
                /\ OccurInOrderFrom(result'.summary, RuledPieces(k.successful), 1)]_vars

\* two different videos summarized apart, the callback of the second url
\* having returned before the callback of the first
UrlOrderKeptWitness ==
    /\ Returned("POST") /\ result.status = 200 /\ ~result.areVideosRelated
    /\ result.videoCount >= 2 /\ Includes(result.summary, "\n\n---\n\n")
    /\ \E i, j \in DOMAIN settled :
           /\ i < j /\ settled[i].rank > settled[j].rank
           /\ ~settled[i].value.error /\ ~settled[j].value.error
           /\ settled[i].value.videoId # settled[j].value.videoId

(***************************************************************************)
(* Properties of the cache on its own (SpecStore)                          *)

\* the lookups, the key each looks under and the age its items may reach
Lookups ==
    {[fn |-> "getCachedVideoData", key |-> "youtube_video_data_" \o VideoA, days |-> 7],
     [fn |-> "getCachedSummary", key |-> "youtube_summary_" \o UrlA \o "_en", days |-> 1],
     [fn |-> "getCachedAnalysis",
      key |-> "youtube_analysis_" \o UrlA \o "_-3824d3_en", days |-> 1]}

\* the step is a call of this lookup
Calls(lookup) == pc = "done" /\ fn' = lookup.fn /\ now' = now /\ result' # Undefined

\* C27: after any stores and lookups, a lookup never returns an item older
\* than the expiry of its kind (7 days for video data, 1 day for summaries
\* and analyses): met with an item that old it removes the item and no
\* other from the store and returns null; an item not that old it returns as
\* it was stored and leaves the store as it is.
LookupsHonourExpiry ==
    [][\A lookup \in Lookups :
          (Calls(lookup) /\ lookup.key \in DOMAIN localStorage) =>
              IF now - localStorage[lookup.key].timestamp > lookup.days * 24 * 60 * 60 * 1000
              THEN /\ result' = Null
                   /\ DOMAIN localStorage' = DOMAIN localStorage \ {lookup.key}
                   /\ \A k \in DOMAIN localStorage' : localStorage'[k] = localStorage[k]
              ELSE /\ result' = localStorage[lookup.key]
                   /\ localStorage' = localStorage]_vars

\* a video just looked up and returned seven days after it was
\* stored, beside a summary and an analysis of which one has been looked up
\* too late and is gone
LookupsHonourExpiryWitness ==
    /\ Returned("getCachedVideoData") /\ result # Null
    /\ now - result.timestamp = CACHE_EXPIRY.VIDEO_DATA
    /\ getVideoDataCacheKey(VideoA) \in DOMAIN localStorage
    /\ prior.called /\ prior.met = result
    /\ getSummaryCacheKey(<<UrlA>>, "en") \notin DOMAIN localStorage
    /\ getAnalysisCacheKey(<<UrlA>>, Questions, "en") \in DOMAIN localStorage

\* C29: in every summarize response, those served from the cache included,
\* areVideosRelated is true only if the summary returned is the merged
\* document of two or more successfully summarized videos of the request
\* that areRelated finds related; with a single url it is never true.
FlagMeansMerged ==
    (/\ Returned("POST") /\ result.status = 200
     /\ "areVideosRelated" \in DOMAIN result /\ result.areVideosRelated)
        => \A videoResults \in {VideoResults(args, env, <<>>, now)} :
           \A successful \in {SelectSeq(videoResults, LAMBDA r : ~r.error)} :
               /\ Len(args.urls) >= 2 /\ Len(successful) >= 2
               /\ areRelated(Summaries(successful), Undefined)
               /\ StartsWith(result.summary,
                             mergeSummaries(Summaries(successful), Titles(successful)))

\* what the handler answers to the urls when no edited content is sent
\* along: a summary generated for them, or the one cached for them
AnswersFor(urls, feedback) ==
    Handle(RequestBody(urls, feedback, ""), env, localStorage, now).response.summary

\* C30: whatever the user did before (entered edit mode, saved edits,
\* changed the urls, submitted), a submission with valid urls that succeeds
\* shows a summary generated or cached for the urls of that request, not a
\* copy of the content shown before, and leaves editedContent empty.
SubmissionShowsFreshSummary ==
    [][(fn' = "handleSummarize" /\ client'.error = "" /\ result'.status = 200) =>
          /\ "isEdited" \notin DOMAIN result'
          /\ client'.summary \in {AnswersFor(args'.urls, f) : f \in {"", client.feedback}}
          /\ client'.editedContent = ""]_vars

=============================================================================
